---- MODULE Spec2Model ----
(***************************************************************************)
(* A model of the matching core of the knowledge-debt-exchange backend:    *)
(* the three-way barter cycle detector (services/barter_service.py), the   *)
(* embedding cache (services/embedding_service.py), the judgment adapter   *)
(* (services/llm_service.py) and match retrieval / re-ranking              *)
(* (services/matching_service.py).                                         *)
(*                                                                         *)
(* Skill names and texts are sequences of one-character strings, so that   *)
(* lower(), strip(), split() and the substring test `x in y` are computed  *)
(* the way Python computes them.  Scores are integers in hundredths        *)
(* (0.4 is 40, 1.0 is 100).                                                *)
(***************************************************************************)
EXTENDS Integers, Sequences, FiniteSets, TLC

VARIABLES
    users,          \* db.users: the stored user documents, in collection order
    added,          \* number of profile edits made so far
    b_pc,           \* detect_3way_cycles: "idle" or "done"
    b_user_id,      \* detect_3way_cycles: the user_id argument of the last call
    b_cycles,       \* detect_3way_cycles: the list returned by the last call
    cache,          \* db.embeddings_cache: key -> stored document
    model_name,     \* the embedding model the provider is configured with
    now,            \* the clock utc_now() reads
    calls,          \* get_or_create: each caller's position and locals
    last,           \* get_or_create: what the last finished call did
    a_pc,           \* analyze_match: "idle", "returned" or "raised"
    a_score,        \* analyze_match: the embedding_score argument
    a_reply,        \* analyze_match: what the judgment provider answered
    a_verdict,      \* analyze_match: the dict returned
    m_pc,           \* find_matches_for_user: where the call stands
    m_args,         \* find_matches_for_user: user_id, top_k, use_llm
    m_user,         \* find_matches_for_user: the user loaded
    m_requests,     \* _retrieve_candidates: the get_or_create calls to make
    m_i,            \* _retrieve_candidates: the next of them
    m_need_embedding, \* _retrieve_candidates: the current need's vector
    m_candidates,   \* _retrieve_candidates: the candidates
    m_j,            \* _rerank_with_llm: the next candidate
    m_judged,       \* _rerank_with_llm: what each judgment call gave
    m_matches,      \* _rerank_with_llm: the matches list of the loop
    m_result,       \* find_matches_for_user: the list returned
    r_pc,           \* _check_reciprocity: position of the scan
    r_users,        \* _check_reciprocity: the stored users the scan reads
    r_user,         \* _check_reciprocity: the seeker
    r_matches,      \* _check_reciprocity: the matches handed in
    r_result,       \* _check_reciprocity: the matches returned
    r_pair,         \* the two lexical tests applied to one pair of names
    message_requests, \* db.message_requests, in insertion order
    messages,       \* db.messages, in insertion order
    msg_response,   \* the response of the last finished messaging call
    sim,            \* utils/similarity.py: the last call and what it gave
    db_matches,     \* db.matches, in insertion order
    cm_calls,       \* compute_matches: per request, where it stands
    cm_count        \* number of compute_matches requests received so far

barterVars == <<users, added, b_pc, b_user_id, b_cycles>>

cacheVars == <<cache, model_name, now, calls, last>>

llmVars == <<a_pc, a_score, a_reply, a_verdict>>

matchVars == <<m_pc, m_args, m_user, m_requests, m_i, m_need_embedding,
               m_candidates, m_j, m_judged, m_matches, m_result>>

recipVars == <<r_pc, r_users, r_user, r_matches, r_result, r_pair>>

msgVars == <<message_requests, messages, msg_response>>

simVars == <<sim>>

computeVars == <<db_matches, cm_calls, cm_count>>

vars == <<users, added, b_pc, b_user_id, b_cycles,
          cache, model_name, now, calls, last,
          a_pc, a_score, a_reply, a_verdict,
          m_pc, m_args, m_user, m_requests, m_i, m_need_embedding,
          m_candidates, m_j, m_judged, m_matches, m_result,
          r_pc, r_users, r_user, r_matches, r_result, r_pair,
          message_requests, messages, msg_response,
          sim, db_matches, cm_calls, cm_count>>

(***************************************************************************)
(* Generic sequence helpers.                                               *)
(***************************************************************************)
Min(a, b) == IF a <= b THEN a ELSE b

Max(a, b) == IF a >= b THEN a ELSE b

\* s[:n]
Take(s, n) == SubSeq(s, 1, Min(n, Len(s)))

\* the concatenation of F(s[1]), F(s[2]), ... : a nested for-loop that appends
RECURSIVE FlatMap(_, _)
FlatMap(F(_), s) ==
    IF s = <<>> THEN <<>> ELSE F(Head(s)) \o FlatMap(F, Tail(s))

\* any(P(x) for x in s)
AnyOf(s, P(_)) == \E i \in 1..Len(s) : P(s[i])

(***************************************************************************)
(* Strings as character sequences.                                         *)
(***************************************************************************)
\* str.lower() on one character, for the upper-case letters the names use
LowerChar(c) ==
    CASE c = "R" -> "r" [] c = "P" -> "p" [] c = "S" -> "s" [] c = "Q" -> "q"
      [] c = "L" -> "l" [] c = "D" -> "d" [] c = "J" -> "j" [] c = "A" -> "a"
      [] c = "N" -> "n" [] c = "M" -> "m"
      [] OTHER -> c

\* str.lower()
Lower(s) == [i \in 1..Len(s) |-> LowerChar(s[i])]

\* Python's `x in y` for strings: x is a contiguous substring of y
Contains(y, x) ==
    \E i \in 0..(Len(y) - Len(x)) : SubSeq(y, i + 1, i + Len(x)) = x

\* skill names
React == <<"R","e","a","c","t">>

Python == <<"P","y","t","h","o","n">>

SQL == <<"S","Q","L">>

Django == <<"D","j","a","n","g","o">>

Redux == <<"R","e","d","u","x">>

(***************************************************************************)
(* services/barter_service.py                                              *)
(***************************************************************************)
\* _keywords_match: the skill_groups table
BarterSkillGroups ==
    << << <<"p","y","t","h","o","n">>, <<"d","j","a","n","g","o">>,
          <<"f","l","a","s","k">>, <<"f","a","s","t","a","p","i">> >>,
       << <<"r","e","a","c","t">>, <<"r","e","a","c","t","j","s">>,
          <<"n","e","x","t",".","j","s">>, <<"n","e","x","t","j","s">> >>,
       << <<"j","a","v","a","s","c","r","i","p","t">>, <<"j","s">>,
          <<"t","y","p","e","s","c","r","i","p","t">>, <<"t","s">> >>,
       << <<"m","l">>,
          <<"m","a","c","h","i","n","e"," ","l","e","a","r","n","i","n","g">>,
          <<"d","e","e","p"," ","l","e","a","r","n","i","n","g">>,
          <<"a","i">> >> >>

\* BarterService._keywords_match(need, skill)
KeywordsMatch(need, skill) ==
    LET need_lower == Lower(need)
        skill_lower == Lower(skill)
    IN  \E g \in 1..Len(BarterSkillGroups) :
            /\ AnyOf(BarterSkillGroups[g], LAMBDA k : Contains(need_lower, k))
            /\ AnyOf(BarterSkillGroups[g], LAMBDA k : Contains(skill_lower, k))

\* the condition of the if inside _can_help's loop, for one offered skill
BarterSkillCondition(need_name, skill_name) ==
    LET need_lower == Lower(need_name)
        skill_lower == Lower(skill_name)
    IN  \/ Contains(skill_lower, need_lower)
        \/ Contains(need_lower, skill_lower)
        \/ KeywordsMatch(need_name, skill_name)

\* BarterService._can_help(helper, seeker, need); the seeker is not read
CanHelp(helper, need) ==
    IF helper.skills_offered = <<>> THEN FALSE
    ELSE AnyOf(helper.skills_offered,
               LAMBDA skill : BarterSkillCondition(need.name, skill.name))

\* StorageService.get_user_by_id: the stored document with that _id, or None
None == [none |-> TRUE]

\* a lookup that answers an unknown id with the first stored user
GetUserOrFirst(db_users, user_id) ==
    IF \E i \in 1..Len(db_users) : db_users[i].id = user_id
    THEN db_users[CHOOSE i \in 1..Len(db_users) : db_users[i].id = user_id]
    ELSE db_users[1]

GetUserById(db_users, user_id) ==
    IF \E i \in 1..Len(db_users) : db_users[i].id = user_id
    THEN db_users[CHOOSE i \in 1..Len(db_users) : db_users[i].id = user_id]
    ELSE None

\* StorageService.get_active_users(limit, exclude_user_id)
GetActiveUsers(db_users, limit, exclude_user_id) ==
    Take(SelectSeq(db_users,
                   LAMBDA u : u.is_active /\ u.id # exclude_user_id), limit)

\* exclude_user_id=None
NoUserId == ""

\* detect_3way_cycles passes limit=200
BarterActiveUserLimit == 200

\* every user who can help, the seeker included
FindHelpersAmongAll(seeker, need, all_users) ==
    SelectSeq(all_users, LAMBDA u : CanHelp(u, need))

\* BarterService._find_helpers(seeker, need, all_users)
FindHelpers(seeker, need, all_users) ==
    SelectSeq(all_users, LAMBDA u : u.id # seeker.id /\ CanHelp(u, need))

\* BarterService._find_matching_skill(helper, need): the loop's test does not
\* read the loop variable, so the first offered skill is returned
FindMatchingSkill(helper, need) ==
    IF helper.skills_offered = <<>> THEN None
    ELSE IF CanHelp(helper, need) THEN helper.skills_offered[1]
    ELSE None

\* BarterService._calculate_fairness: the placeholder 0.85, in hundredths
FairnessPlaceholder == 85

\* `skill.name if skill else "Unknown"`
SkillNameOrUnknown(skill) ==
    IF skill = None THEN <<"U","n","k","n","o","w","n">> ELSE skill.name

\* BarterService._create_cycle(user_a, user_b, user_c, a_need, b_need):
\* <<cycle>>, or <<>> for None
CreateCycle(user_a, user_b, user_c, a_need, b_need) ==
    LET helped == SelectSeq(user_c.skills_needed,
                            LAMBDA need : CanHelp(user_a, need))
    IN  IF helped = <<>> THEN <<>>
        ELSE
          LET c_need == helped[1]
              a_to_c_skill == FindMatchingSkill(user_a, c_need)
              b_to_a_skill == FindMatchingSkill(user_b, a_need)
              c_to_b_skill == FindMatchingSkill(user_c, b_need)
          IN  << [ participants |->
                     << [user_id |-> user_a.id,
                         offers |-> SkillNameOrUnknown(a_to_c_skill),
                         receives |-> SkillNameOrUnknown(b_to_a_skill)],
                        [user_id |-> user_b.id,
                         offers |-> SkillNameOrUnknown(b_to_a_skill),
                         receives |-> SkillNameOrUnknown(c_to_b_skill)],
                        [user_id |-> user_c.id,
                         offers |-> SkillNameOrUnknown(c_to_b_skill),
                         receives |-> SkillNameOrUnknown(a_to_c_skill)] >>,
                   exchanges |->
                     << [from_user_id |-> user_a.id, to_user_id |-> user_c.id,
                         skill |-> SkillNameOrUnknown(a_to_c_skill)],
                        [from_user_id |-> user_b.id, to_user_id |-> user_a.id,
                         skill |-> SkillNameOrUnknown(b_to_a_skill)],
                        [from_user_id |-> user_c.id, to_user_id |-> user_b.id,
                         skill |-> SkillNameOrUnknown(c_to_b_skill)] >>,
                   fairness_score |-> FairnessPlaceholder ] >>

\* the test that closes a cycle in detect_3way_cycles' innermost loop:
\* self._can_help(c_user, user, user_need)
CycleClosingTest(user, c_user, user_need) == CanHelp(c_user, user_need)

\* BarterService.detect_3way_cycles(user_id)
Detect3WayCycles(db_users, user_id) ==
    LET user == GetUserById(db_users, user_id)
    IN  IF user = None THEN <<>>
        ELSE IF user.skills_needed = <<>> \/ user.skills_offered = <<>> THEN <<>>
        ELSE
          LET all_users == GetActiveUsers(db_users, BarterActiveUserLimit, NoUserId)
              ForC(user_need, b_user, b_need, c_user) ==
                  IF CycleClosingTest(user, c_user, user_need)
                  THEN CreateCycle(user, b_user, c_user, user_need, b_need)
                  ELSE <<>>
              ForBNeed(user_need, b_user, b_need) ==
                  FlatMap(LAMBDA c_user : ForC(user_need, b_user, b_need, c_user),
                          FindHelpers(b_user, b_need, all_users))
              ForB(user_need, b_user) ==
                  IF b_user.skills_needed = <<>> THEN <<>>
                  ELSE FlatMap(LAMBDA b_need : ForBNeed(user_need, b_user, b_need),
                               b_user.skills_needed)
              ForNeed(user_need) ==
                  FlatMap(LAMBDA b_user : ForB(user_need, b_user),
                          FindHelpers(user, user_need, all_users))
          IN  FlatMap(ForNeed, user.skills_needed)

(***************************************************************************)
(* services/embedding_service.py                                           *)
(***************************************************************************)
\* the argument None where a str is expected
NoneText == <<"None">>

\* `text or ""`
TextOrEmpty(text) == IF text = NoneText \/ text = <<>> THEN <<>> ELSE text

\* the characters str.strip() and str.split() treat as whitespace
IsSpace(c) == c \in {" ", "\t", "\n"}

\* str.split(): the maximal runs of non-whitespace characters
RECURSIVE SplitWords(_, _)
SplitWords(s, word) ==
    IF s = <<>> THEN (IF word = <<>> THEN <<>> ELSE <<word>>)
    ELSE IF IsSpace(Head(s))
         THEN (IF word = <<>> THEN <<>> ELSE <<word>>) \o SplitWords(Tail(s), <<>>)
         ELSE SplitWords(Tail(s), Append(word, Head(s)))

\* " ".join(words)
RECURSIVE JoinSpace(_)
JoinSpace(words) ==
    IF words = <<>> THEN <<>>
    ELSE IF Len(words) = 1 THEN words[1]
    ELSE words[1] \o <<" ">> \o JoinSpace(Tail(words))

\* str.strip()
RECURSIVE StripLeft(_)
StripLeft(s) ==
    IF s # <<>> /\ IsSpace(Head(s)) THEN StripLeft(Tail(s)) ELSE s

RECURSIVE StripRight(_)
StripRight(s) ==
    IF s # <<>> /\ IsSpace(s[Len(s)])
    THEN StripRight(SubSeq(s, 1, Len(s) - 1)) ELSE s

Strip(s) == StripRight(StripLeft(s))

\* a digest of the stripped text, inner whitespace kept
Sha256Stripped(text) ==
    [sha256 |-> Strip(TextOrEmpty(text))]

\* sha256_text: the digest of the normalized text; SHA-256 is taken to be
\* collision-free, so the digest is represented by the text it was taken of
Sha256Text(text) ==
    [sha256 |-> JoinSpace(SplitWords(Strip(TextOrEmpty(text)), <<>>))]

\* the vector the embeddings API returns for a text under a model: a fixed
\* function of (model, text), read off the first letter of the text
ApiEmbedding(model, text) ==
    LET c == LowerChar(Head(text))
        v == CASE c = "r" -> <<5, 0>>
               [] c = "p" -> <<0, 5>>
               [] c = "d" -> <<3, 4>>
               [] c = "s" -> <<4, -3>>
               [] c = "a" -> <<4, 3>>
               [] c = "c" -> <<-3, 4>>
               [] OTHER -> <<-4, -3>>
    IN  IF model = "small" THEN v ELSE <<v[2], v[1]>>

\* OpenRouterEmbedProvider.embed([text]) when the API answers: the texts are
\* stripped, and an input that is empty after stripping gets a zero vector
ProviderEmbed(model, text) ==
    LET stripped == Strip(text)
    IN  IF stripped = <<>> THEN <<0, 0>> ELSE ApiEmbedding(model, stripped)

\* the models OpenRouterEmbedProvider knows dimensions for
ModelNames == {"small", "large"}

\* the cache key: the filter of find_one and update_one
CacheKey(owner_user_id, item_type, ref_id) ==
    [ownerUserId |-> owner_user_id, type |-> item_type, refId |-> ref_id]

\* MongoEmbeddingCacheRepo.get_by_owner_type_ref: the document, or None; None
\* also when find_one raises
GetByOwnerTypeRef(store, key, read_ok) ==
    IF read_ok /\ key \in DOMAIN store THEN store[key] ELSE None

\* an update that sets every field but the vector of an existing document
UpsertKeepingVector(store, key, doc) ==
    [k \in (DOMAIN store) \cup {key} |->
        IF k # key THEN store[k]
        ELSE IF key \in DOMAIN store
             THEN [doc EXCEPT !.vector = store[key].vector]
             ELSE doc]

\* update_one(filter, {"$set": doc}, upsert=True): doc sets every field
UpsertDoc(store, key, doc) ==
    [k \in (DOMAIN store) \cup {key} |-> IF k = key THEN doc ELSE store[k]]

\* the hit test without the model comparison
CacheHitAnyModel(cached, current_model, text_hash) ==
    /\ cached # None
    /\ cached.textHash = text_hash
    /\ Len(cached.vector) > 0

\* the test of line 261: same_model and same_hash and a non-empty list
CacheHit(cached, current_model, text_hash) ==
    /\ cached # None
    /\ cached.model = current_model
    /\ cached.textHash = text_hash
    /\ Len(cached.vector) > 0

\* createdAt reset on every write
CreatedAtAlwaysNow(cached, t) == t

\* `cached.get("createdAt", now) if cached else now`
CreatedAtFor(cached, t) == IF cached # None THEN cached.createdAt ELSE t

\* a document that does not record the model it was embedded with
BuildDocWithoutModel(key, current_model, text_hash, vec, cached, t) ==
    [ownerUserId |-> key.ownerUserId, type |-> key.type, refId |-> key.refId,
     model |-> "", textHash |-> text_hash, dim |-> Len(vec),
     vector |-> vec, updatedAt |-> t, createdAt |-> CreatedAtFor(cached, t)]

\* the document get_or_create builds after the provider returned vec
BuildDoc(key, current_model, text_hash, vec, cached, t) ==
    [ownerUserId |-> key.ownerUserId, type |-> key.type, refId |-> key.refId,
     model |-> current_model, textHash |-> text_hash, dim |-> Len(vec),
     vector |-> vec, updatedAt |-> t, createdAt |-> CreatedAtFor(cached, t)]

\* the callers of get_or_create that can be in flight together
NumCallers == 2

Callers == 1..NumCallers

\* the last instant the clock reaches
MaxTime == 2

TextAB == <<"a", " ", "b">>

\* TextAB with other whitespace
TextABSpaced == <<" ", "a", " ", " ", "b">>

TextC == <<"c">>

CacheTexts == {TextAB, TextC}

\* the texts of the calls that run one at a time
SeqTexts == CacheTexts \cup {TextABSpaced}

KeyNeed == CacheKey("a", "need", React)

KeySkill == CacheKey("b", "skill", React)

CacheKeys == {KeyNeed, KeySkill}

\* a document of an older writer that stored no vector
LegacyDoc(key) ==
    [ownerUserId |-> key.ownerUserId, type |-> key.type, refId |-> key.refId,
     model |-> "small", textHash |-> Sha256Text(TextAB), dim |-> 0,
     vector |-> <<>>, updatedAt |-> 0, createdAt |-> 0]

IdleCall ==
    [pc |-> "idle", key |-> CacheKey("", "", <<>>), text |-> <<>>,
     text_hash |-> Sha256Text(<<>>), cached |-> None,
     doc |-> None, result |-> <<>>, provider_calls |-> 0, upserts |-> 0,
     fault |-> "none"]

NoLast ==
    [outcome |-> "none", key |-> CacheKey("", "", <<>>), text |-> <<>>,
     model |-> "", result |-> <<>>, provider_calls |-> 0]

InitCache ==
    /\ cache \in {[k \in {} |-> None]}
                 \cup {[k \in {key} |-> LegacyDoc(key)] : key \in CacheKeys}
    /\ model_name \in ModelNames
    /\ now = 1
    /\ calls = [p \in Callers |-> IdleCall]
    /\ last = NoLast

\* get_or_create, lines 247-267: hash the text, read the cache, and return the
\* stored vector on a hit
GocReadCall(key, text, read_ok) ==
    LET text_hash == Sha256Text(text)
        cached == GetByOwnerTypeRef(cache, key, read_ok)
        hit == CacheHit(cached, model_name, text_hash)
    IN  [IdleCall EXCEPT
            !.pc = IF hit THEN "returned" ELSE "embed",
            !.key = key, !.text = text, !.text_hash = text_hash,
            !.cached = cached,
            !.result = IF hit THEN cached.vector ELSE <<>>]

\* a caller enters get_or_create
GocRead(p, key, text, read_ok) ==
    /\ calls[p].pc = "idle"
    /\ calls' = [calls EXCEPT ![p] = GocReadCall(key, text, read_ok)]
    /\ UNCHANGED <<cache, model_name, now, last>>
    /\ UNCHANGED barterVars
    /\ UNCHANGED llmVars
    /\ UNCHANGED recipVars
    /\ UNCHANGED msgVars
    /\ UNCHANGED simVars
    /\ UNCHANGED computeVars
    /\ UNCHANGED matchVars

\* a provider failure answered with a zero vector that is then cached
ZeroVectorOnFailure(c, current_model, t) ==
    [c EXCEPT !.pc = "upsert", !.fault = "provider",
              !.provider_calls = c.provider_calls + 1,
              !.doc = BuildDoc(c.key, current_model, c.text_hash, <<0, 0>>,
                               c.cached, t)]

\* line 270 when self._provider.embed raises: nothing catches it
AfterProviderFailure(c, current_model, t) ==
    [c EXCEPT !.pc = "raised", !.fault = "provider",
              !.provider_calls = c.provider_calls + 1]

\* lines 269-286: the provider call, then the document is built
GocEmbed(p, provider_ok, dt) ==
    /\ calls[p].pc = "embed"
    /\ now + dt <= MaxTime
    /\ now' = now + dt
    /\ LET c == calls[p]
       IN  calls' = [calls EXCEPT ![p] =
                IF provider_ok
                THEN [c EXCEPT
                        !.pc = "upsert",
                        !.provider_calls = c.provider_calls + 1,
                        !.doc = BuildDoc(c.key, model_name, c.text_hash,
                                         ProviderEmbed(model_name, c.text),
                                         c.cached, now')]
                ELSE AfterProviderFailure(c, model_name, now')]
    /\ UNCHANGED <<cache, model_name, last>>
    /\ UNCHANGED barterVars
    /\ UNCHANGED llmVars
    /\ UNCHANGED recipVars
    /\ UNCHANGED msgVars
    /\ UNCHANGED simVars
    /\ UNCHANGED computeVars
    /\ UNCHANGED matchVars

\* what get_or_create does when self._cache.upsert(doc) raises
AfterFailedUpsert(c) ==
    [c EXCEPT !.pc = "raised", !.fault = "upsert", !.upserts = c.upserts + 1]

\* lines 288-291: the upsert, then the new vector is returned
GocUpsert(p, upsert_ok) ==
    /\ calls[p].pc = "upsert"
    /\ LET c == calls[p]
       IN  IF upsert_ok
           THEN /\ cache' = UpsertDoc(cache, c.key, c.doc)
                /\ calls' = [calls EXCEPT ![p] =
                        [c EXCEPT !.pc = "returned",
                                  !.upserts = c.upserts + 1,
                                  !.result = c.doc.vector]]
           ELSE /\ cache' = cache
                /\ calls' = [calls EXCEPT ![p] = AfterFailedUpsert(c)]
    /\ UNCHANGED <<model_name, now, last>>
    /\ UNCHANGED barterVars
    /\ UNCHANGED llmVars
    /\ UNCHANGED recipVars
    /\ UNCHANGED msgVars
    /\ UNCHANGED simVars
    /\ UNCHANGED computeVars
    /\ UNCHANGED matchVars

\* the caller takes the vector, or the exception, and remembers the call
GocFinish(p) ==
    /\ calls[p].pc \in {"returned", "raised"}
    /\ last' = [outcome |-> calls[p].pc, key |-> calls[p].key,
                text |-> calls[p].text, model |-> model_name,
                result |-> calls[p].result,
                provider_calls |-> calls[p].provider_calls]
    /\ calls' = [calls EXCEPT ![p] = IdleCall]
    /\ UNCHANGED <<cache, model_name, now>>
    /\ UNCHANGED barterVars
    /\ UNCHANGED llmVars
    /\ UNCHANGED recipVars
    /\ UNCHANGED msgVars
    /\ UNCHANGED simVars
    /\ UNCHANGED computeVars
    /\ UNCHANGED matchVars

\* the service is restarted with another EMBEDDING_MODEL
ChangeModel(m) ==
    /\ \A p \in Callers : calls[p].pc = "idle"
    /\ m # model_name
    /\ model_name' = m
    /\ UNCHANGED <<cache, now, calls, last>>
    /\ UNCHANGED barterVars
    /\ UNCHANGED llmVars
    /\ UNCHANGED recipVars
    /\ UNCHANGED msgVars
    /\ UNCHANGED simVars
    /\ UNCHANGED computeVars
    /\ UNCHANGED matchVars

\* one caller at a time: every call runs to its end before the next starts
NextCacheSeq ==
    \/ \E key \in CacheKeys, text \in SeqTexts, read_ok \in BOOLEAN :
           GocRead(1, key, text, read_ok)
    \/ \E provider_ok \in BOOLEAN, dt \in {0, 1} : GocEmbed(1, provider_ok, dt)
    \/ \E upsert_ok \in BOOLEAN : GocUpsert(1, upsert_ok)
    \/ GocFinish(1)
    \/ \E m \in ModelNames : ChangeModel(m)

\* concurrent requests, each making one call on the same key, interleave at
\* the awaits
NextCache ==
    \/ \E p \in Callers, text \in CacheTexts, read_ok \in BOOLEAN :
           GocRead(p, KeyNeed, text, read_ok)
    \/ \E p \in Callers, provider_ok \in BOOLEAN, dt \in {0, 1} :
           GocEmbed(p, provider_ok, dt)
    \/ \E p \in Callers, upsert_ok \in BOOLEAN : GocUpsert(p, upsert_ok)

(***************************************************************************)
(* services/llm_service.py: the judgment adapter.                          *)
(***************************************************************************)
\* the values json.loads yields: a number (in hundredths), true/false, a
\* string (none of the strings used here reads as a number), or null
JNum(n) == [t |-> "num", n |-> n, b |-> FALSE, s |-> ""]

JBool(b) == [t |-> "bool", n |-> 0, b |-> b, s |-> ""]

JText(s) == [t |-> "str", n |-> 0, b |-> FALSE, s |-> s]

JNull == [t |-> "null", n |-> 0, b |-> FALSE, s |-> ""]

\* float(x): the number, or the exception float raises
FloatOf(x) ==
    CASE x.t = "num"  -> [error |-> "", value |-> x.n]
      [] x.t = "bool" -> [error |-> "", value |-> IF x.b THEN 100 ELSE 0]
      [] x.t = "str"  -> [error |-> "ValueError", value |-> 0]
      [] OTHER        -> [error |-> "TypeError", value |-> 0]

\* bool(x)
BoolOf(x) ==
    CASE x.t = "num"  -> x.n # 0
      [] x.t = "bool" -> x.b
      [] x.t = "str"  -> x.s # ""
      [] OTHER        -> FALSE

\* a score written back as it was parsed
ClampNothing(x) == x

\* max(0.0, min(1.0, x))
Clamp01(x) == Max(0, Min(100, x))

\* s.startswith(prefix)
StartsWith(s, prefix) ==
    Len(s) >= Len(prefix) /\ SubSeq(s, 1, Len(prefix)) = prefix

\* s.endswith(suffix)
EndsWith(s, suffix) ==
    Len(s) >= Len(suffix) /\ SubSeq(s, Len(s) - Len(suffix) + 1, Len(s)) = suffix

\* s[n:]
Drop(s, n) == SubSeq(s, Min(n, Len(s)) + 1, Len(s))

\* the grave accent U+0060, which a TLA+ string cannot hold, written as "^"
Backtick == "^"

Fence == <<Backtick, Backtick, Backtick>>

FenceJson == Fence \o <<"j", "s", "o", "n">>

\* _parse_llm_response, lines 181-189: markdown fencing is removed
StripFences(content) ==
    LET c0 == Strip(content)
        c1 == IF StartsWith(c0, FenceJson) THEN Drop(c0, 7) ELSE c0
        c2 == IF StartsWith(c1, Fence) THEN Drop(c1, 3) ELSE c1
        c3 == IF EndsWith(c2, Fence) THEN SubSeq(c2, 1, Len(c2) - 3) ELSE c2
    IN  Strip(c3)

\* the text of a JSON object; what its members are is given beside the text
ObjectText == <<"{", "}">>

\* the text of a JSON array
ListText == <<"[", "]">>

\* the text of a JSON number
NumberText == <<"7">>

\* json.loads(content): the kind of value decoded, or JSONDecodeError
JsonLoads(content) ==
    CASE content = ObjectText -> [error |-> "", kind |-> "object"]
      [] content = ListText   -> [error |-> "", kind |-> "list"]
      [] content = NumberText -> [error |-> "", kind |-> "number"]
      [] OTHER -> [error |-> "JSONDecodeError", kind |-> ""]

RequiredFields ==
    <<"adjusted_score", "can_help", "confidence", "reasoning", "explanation">>

\* `field not in result` for the first field the loop reaches: a dict or a
\* list lacking a field raises ValueError, a number raises TypeError
RequiredFieldsError(kind, members) ==
    CASE kind = "number" -> "TypeError"
      [] kind = "list" -> "ValueError"
      [] OTHER -> IF \E i \in 1..Len(RequiredFields) :
                        RequiredFields[i] \notin DOMAIN members
                  THEN "ValueError" ELSE ""

\* result.get(field, True)
GetOrTrue(members, field) ==
    IF field \in DOMAIN members THEN members[field] ELSE JBool(TRUE)

NoVerdict ==
    [adjusted_score |-> 0, can_help |-> FALSE, confidence |-> 0,
     reasoning |-> JNull, explanation |-> JNull,
     prerequisites_met |-> FALSE, skill_level_match |-> FALSE,
     llm_model |-> ""]

\* _parse_llm_response: the exception raised, or the validated dict
ParseLlmResponse(content, members) ==
    LET stripped == StripFences(content)
        loaded == JsonLoads(stripped)
        missing == RequiredFieldsError(loaded.kind, members)
    IN  IF loaded.error # "" THEN [error |-> loaded.error, result |-> NoVerdict]
        ELSE IF missing # "" THEN [error |-> missing, result |-> NoVerdict]
        ELSE LET adjusted == FloatOf(members["adjusted_score"])
                 confidence == FloatOf(members["confidence"])
             IN  IF adjusted.error # ""
                 THEN [error |-> adjusted.error, result |-> NoVerdict]
                 ELSE IF confidence.error # ""
                 THEN [error |-> confidence.error, result |-> NoVerdict]
                 ELSE [error |-> "",
                       result |->
                         [adjusted_score |-> Clamp01(adjusted.value),
                          can_help |-> BoolOf(members["can_help"]),
                          confidence |-> Clamp01(confidence.value),
                          reasoning |-> members["reasoning"],
                          explanation |-> members["explanation"],
                          prerequisites_met |->
                              BoolOf(GetOrTrue(members, "prerequisites_met")),
                          skill_level_match |->
                              BoolOf(GetOrTrue(members, "skill_level_match")),
                          llm_model |-> ""]]

\* _fallback_analysis
FallbackAnalysis(embedding_score) ==
    [adjusted_score |-> embedding_score,
     can_help |-> embedding_score > 40,
     confidence |-> 50,
     reasoning |-> JText("LLM analysis failed, using embedding score only"),
     explanation |-> JText("This match is based on semantic similarity. The helper's skills appear relevant to your need."),
     prerequisites_met |-> TRUE, skill_level_match |-> TRUE,
     llm_model |-> "fallback"]

\* a handler that catches what _parse_llm_response's own except names
OnParseErrorOnly(error, embedding_score) ==
    IF error \in {"JSONDecodeError", "ValueError", "KeyError"}
    THEN [outcome |-> "returned", verdict |-> FallbackAnalysis(embedding_score)]
    ELSE [outcome |-> "raised", verdict |-> NoVerdict]

\* analyze_match, lines 114-119: `except Exception` returns the fallback
OnAnalysisError(error, embedding_score) ==
    [outcome |-> "returned", verdict |-> FallbackAnalysis(embedding_score)]

\* the model name the adapter is configured with
LlmModel == "judge"

\* analyze_match: reply.status is "ok" when the POST answered 2xx with a body
\* holding choices[0].message.content, else the exception raised inside the try
AnalyzeMatch(embedding_score, reply) ==
    IF reply.status # "ok"
    THEN OnAnalysisError(reply.status, embedding_score)
    ELSE LET parsed == ParseLlmResponse(reply.content, reply.members)
         IN  IF parsed.error # ""
             THEN OnAnalysisError(parsed.error, embedding_score)
             ELSE [outcome |-> "returned",
                   verdict |-> [parsed.result EXCEPT !.llm_model = LlmModel]]

\* the embedding_score arguments tried, in hundredths
EmbeddingScores == {-100, -50, 0, 40, 41, 100}

OptionalFields == {"prerequisites_met", "skill_level_match"}

AllFields == {RequiredFields[i] : i \in 1..Len(RequiredFields)} \cup OptionalFields

\* the members of the object the provider wrote
Members(adjusted, can_help, confidence, fields) ==
    [f \in fields |->
        CASE f = "adjusted_score" -> adjusted
          [] f = "can_help" -> can_help
          [] f = "confidence" -> confidence
          [] f = "reasoning" -> JText("because")
          [] f = "explanation" -> JText("a good match")
          [] OTHER -> JBool(FALSE)]

\* every field, the mandatory fields only, or one mandatory field missing
FieldSets ==
    {AllFields, AllFields \ OptionalFields}
        \cup {AllFields \ {RequiredFields[i]} : i \in 1..Len(RequiredFields)}

AdjustedValues ==
    {JNum(-50), JNum(30), JNum(150), JBool(TRUE), JText("high"), JNull}

CanHelpValues == {JBool(TRUE), JBool(FALSE), JText("no"), JNull}

ConfidenceValues == {JNum(-20), JNum(80), JNum(120), JText("sure")}

ReplyMembers ==
    {Members(adjusted, can_help, confidence, fields) :
        adjusted \in AdjustedValues, can_help \in CanHelpValues,
        confidence \in ConfidenceValues, fields \in FieldSets}

\* the object alone, as the prompt asks
PlainContent == ObjectText

SpacedContent == <<"\n">> \o ObjectText \o <<" ", "\n">>

FencedJsonContent == FenceJson \o <<"\n">> \o ObjectText \o <<"\n">> \o Fence

FencedContent == Fence \o ObjectText \o Fence

\* words before the fenced object
PrefixedContent == <<"O", "K", " ">> \o FencedJsonContent

\* an object cut off by max_tokens
TruncatedContent == <<"{">>

ReplyContents ==
    {PlainContent, SpacedContent, FencedJsonContent, FencedContent,
     PrefixedContent, TruncatedContent, ListText, NumberText, <<>>}

Reply(status, content, members) ==
    [status |-> status, content |-> content, members |-> members]

\* raise_for_status, the 30 s timeout, and a body without choices
ReplyErrors == {"HTTPStatusError", "TimeoutException", "KeyError"}

Replies ==
    {Reply("ok", content, members) :
        content \in ReplyContents, members \in ReplyMembers}
    \cup {Reply(error, <<>>, Members(JNull, JNull, JNull, {})) :
            error \in ReplyErrors}

NoReply == Reply("", <<>>, Members(JNull, JNull, JNull, {}))

InitLLM ==
    /\ a_pc = "idle"
    /\ a_score = 0
    /\ a_reply = NoReply
    /\ a_verdict = NoVerdict

\* one call of analyze_match
AnalyzeCall(embedding_score, reply) ==
    /\ a_pc = "idle"
    /\ LET r == AnalyzeMatch(embedding_score, reply)
       IN  /\ a_pc' = r.outcome
           /\ a_verdict' = r.verdict
    /\ a_score' = embedding_score
    /\ a_reply' = reply
    /\ UNCHANGED barterVars
    /\ UNCHANGED cacheVars
    /\ UNCHANGED matchVars
    /\ UNCHANGED recipVars
    /\ UNCHANGED msgVars
    /\ UNCHANGED simVars
    /\ UNCHANGED computeVars

\* the caller has taken the verdict
AnalyzeReturn ==
    /\ a_pc # "idle"
    /\ a_pc' = "idle"
    /\ a_score' = 0
    /\ a_reply' = NoReply
    /\ a_verdict' = NoVerdict
    /\ UNCHANGED barterVars
    /\ UNCHANGED cacheVars
    /\ UNCHANGED matchVars
    /\ UNCHANGED recipVars
    /\ UNCHANGED msgVars
    /\ UNCHANGED simVars
    /\ UNCHANGED computeVars

NextLLM ==
    \/ /\ a_pc = "idle"
       /\ \E embedding_score \in EmbeddingScores, reply \in Replies :
              AnalyzeCall(embedding_score, reply)
    \/ AnalyzeReturn


(***************************************************************************)
(* services/matching_service.py                                            *)
(***************************************************************************)
\* core/types.py MIN_EMBEDDING_SIMILARITY = 0.4
MIN_EMBEDDING_SIMILARITY == 40

\* _retrieve_candidates passes limit=200
MatchActiveUserLimit == 200

RECURSIVE Dot(_, _)
Dot(a, b) ==
    IF a = <<>> \/ b = <<>> THEN 0
    ELSE Head(a) * Head(b) + Dot(Tail(a), Tail(b))

\* np.linalg.norm; the vectors of ApiEmbedding have whole-number norms
Norm(v) ==
    LET sq == Dot(v, v)
    IN  CHOOSE r \in 0..sq : r * r <= sq /\ (r + 1) * (r + 1) > sq

\* EmbeddingService.cosine_similarity, in hundredths
CosineSimilarity(a, b) ==
    LET na == Norm(a)
        nb == Norm(b)
    IN  IF na = 0 \/ nb = 0 THEN 0
        ELSE Max(-100, Min(100, (Dot(a, b) * 100) \div (na * nb)))

\* f"{name}. {description or ''}"
SkillText(skill) == skill.name \o <<".", " ">> \o skill.description

\* the get_or_create call for a need of the seeker
NeedRequest(user, need) ==
    [kind |-> "need", need |-> need, helper |-> user, skill |-> need,
     key |-> CacheKey(user.id, "need", need.name), text |-> SkillText(need)]

\* the get_or_create call for an offered skill of a helper
SkillRequest(need, helper, skill) ==
    [kind |-> "skill", need |-> need, helper |-> helper, skill |-> skill,
     key |-> CacheKey(helper.id, "skill", skill.name),
     text |-> SkillText(skill)]

\* lines 115-140: the get_or_create calls the nested loops make, in order:
\* per need its own embedding, then one per offered skill of every helper
EmbedRequests(user, potential_helpers) ==
    LET ForHelper(need, helper) ==
            FlatMap(LAMBDA skill : <<SkillRequest(need, helper, skill)>>,
                    helper.skills_offered)
        ForNeed(need) ==
            <<NeedRequest(user, need)>>
                \o FlatMap(LAMBDA helper : ForHelper(need, helper),
                           potential_helpers)
    IN  FlatMap(ForNeed, user.skills_needed)

\* the dict a match carries as metadata: keys names the keys it has
Metadata(keys, embedding_score, analysis) ==
    [keys |-> keys, embedding_score |-> embedding_score,
     llm_reasoning |-> analysis.reasoning,
     prerequisites_met |-> analysis.prerequisites_met,
     skill_level_match |-> analysis.skill_level_match,
     reverse_match |-> [helper_needs |-> <<>>, user_offers |-> <<>>]]

\* candidate["metadata"]: helper_proficiency and seeker_level
CandidateMetadata ==
    Metadata({"helper_proficiency", "seeker_level"}, 0, NoVerdict)

\* lines 150-166: the candidate appended for a kept pair
Candidate(user, request, similarity) ==
    [user_id |-> user.id,
     matched_user_id |-> request.helper.id,
     skill_offered |-> request.skill.name,
     skill_offered_description |-> request.skill.description,
     skill_needed |-> request.need.name,
     skill_needed_description |-> request.need.description,
     embedding_score |-> similarity,
     helper |-> request.helper,
     metadata |-> CandidateMetadata]

\* list.sort(key=..., reverse=True): stable, equal keys keep their order
RECURSIVE InsertDesc(_, _, _)
InsertDesc(Key(_), sorted, x) ==
    IF sorted = <<>> THEN <<x>>
    ELSE IF Key(Head(sorted)) >= Key(x)
         THEN <<Head(sorted)>> \o InsertDesc(Key, Tail(sorted), x)
         ELSE <<x>> \o sorted

RECURSIVE SortDesc(_, _)
SortDesc(Key(_), s) ==
    IF s = <<>> THEN <<>>
    ELSE InsertDesc(Key, SortDesc(Key, SubSeq(s, 1, Len(s) - 1)), s[Len(s)])

\* a truncation of the candidates in the order the loops found them
FirstCandidates(candidates, top_k) == Take(candidates, top_k)

\* lines 168-169: sort by similarity and take top-K
TopCandidates(candidates, top_k) ==
    Take(SortDesc(LAMBDA c : c.embedding_score, candidates), top_k)

\* an explanation: text the judgment wrote, or a template of the service
\* filled with the match's own skill names
Explanation(template, value) == [template |-> template, value |-> value]

\* lines 231-247: the match built from a verdict
JudgmentMatch(user, candidate, analysis) ==
    [user_id |-> user.id,
     matched_user_id |-> candidate.helper.id,
     skill_offered |-> candidate.skill_offered,
     skill_needed |-> candidate.skill_needed,
     match_score |-> analysis.adjusted_score,
     confidence |-> analysis.confidence,
     explanation |-> Explanation("", analysis.explanation),
     is_reciprocal |-> FALSE,
     metadata |->
        Metadata(candidate.metadata.keys
                    \cup {"embedding_score", "llm_reasoning",
                          "prerequisites_met", "skill_level_match"},
                 candidate.embedding_score, analysis)]

\* lines 252-262: the embedding-only match of the except branch
EmbeddingOnlyMatch(user, candidate) ==
    [user_id |-> user.id,
     matched_user_id |-> candidate.helper.id,
     skill_offered |-> candidate.skill_offered,
     skill_needed |-> candidate.skill_needed,
     match_score |-> candidate.embedding_score,
     confidence |-> 50,
     explanation |->
        Explanation("This helper has skills in {skill_offered} which may help with your need.",
                    JNull),
     is_reciprocal |-> FALSE,
     metadata |-> candidate.metadata]

\* a loop without the try: the exception leaves _rerank_with_llm
RerankUncaught(user, candidate) == [raised |-> TRUE, appended |-> <<>>]

\* lines 249-262: `except Exception` appends the embedding-only match
RerankExcept(user, candidate) ==
    [raised |-> FALSE, appended |-> <<EmbeddingOnlyMatch(user, candidate)>>]

\* a loop body that appends a match whatever the verdict's can_help says
RerankIgnoringCanHelp(user, candidate, judgment) ==
    IF judgment.throws THEN RerankExcept(user, candidate)
    ELSE [raised |-> FALSE,
          appended |->
            <<JudgmentMatch(user, candidate,
                AnalyzeMatch(candidate.embedding_score,
                             judgment.reply).verdict)>>]

\* lines 195-262, one iteration: judgment.throws when the awaited
\* analyze_match raises, else judgment.reply is what the provider answered
RerankCandidate(user, candidate, judgment) ==
    IF judgment.throws THEN RerankExcept(user, candidate)
    ELSE LET r == AnalyzeMatch(candidate.embedding_score, judgment.reply)
         IN  IF r.outcome = "raised" THEN RerankExcept(user, candidate)
             ELSE IF r.verdict.can_help
                  THEN [raised |-> FALSE,
                        appended |->
                            <<JudgmentMatch(user, candidate, r.verdict)>>]
                  ELSE [raised |-> FALSE, appended |-> <<>>]

\* a truncation of the matches in the order the loop appended them
FirstMatches(matches, top_k) == Take(matches, top_k)

\* lines 265-268: sort by match_score and take top-K
TopMatches(matches, top_k) ==
    Take(SortDesc(LAMBDA x : x.match_score, matches), top_k)

\* a conversion that carries the confidence of the embedding-only fallback
ConvertedMatchAtHalf(candidate) ==
    [EmbeddingOnlyMatch([id |-> candidate.user_id], candidate)
        EXCEPT !.matched_user_id = candidate.matched_user_id]

\* _convert_candidates_to_matches, one candidate
ConvertedMatch(candidate) ==
    [user_id |-> candidate.user_id,
     matched_user_id |-> candidate.matched_user_id,
     skill_offered |-> candidate.skill_offered,
     skill_needed |-> candidate.skill_needed,
     match_score |-> candidate.embedding_score,
     confidence |-> 70,
     explanation |->
        Explanation("Based on semantic similarity, this helper's skills in {skill_offered} align with your need for {skill_needed}.",
                    JNull),
     is_reciprocal |-> FALSE,
     metadata |-> candidate.metadata]

\* _convert_candidates_to_matches
ConvertCandidatesToMatches(candidates, top_k) ==
    LET top == Take(candidates, top_k)
    IN  [i \in 1..Len(top) |-> ConvertedMatch(top[i])]

\* _skills_are_similar: the skill_keywords table, the barter table and a
\* fifth group
MatchSkillKeywords ==
    BarterSkillGroups
        \o << << <<"d","a","t","a">>,
                 <<"a","n","a","l","y","t","i","c","s">>,
                 <<"a","n","a","l","y","s","i","s">>,
                 <<"v","i","s","u","a","l","i","z","a","t","i","o","n">> >> >>

\* MatchingService._skills_are_similar
SkillsAreSimilar(skill1, skill2) ==
    LET s1 == Strip(Lower(skill1))
        s2 == Strip(Lower(skill2))
    IN  \/ s1 = s2
        \/ \E g \in 1..Len(MatchSkillKeywords) :
            /\ AnyOf(MatchSkillKeywords[g], LAMBDA v : Contains(s1, v))
            /\ AnyOf(MatchSkillKeywords[g], LAMBDA v : Contains(s2, v))

\* lines 329-333: the test on one (helper need, user skill) pair
ReciprocalPair(helper_need, user_skill) ==
    LET helper_need_lower == Lower(helper_need.name)
        user_skill_lower == Lower(user_skill.name)
    IN  \/ Contains(user_skill_lower, helper_need_lower)
        \/ Contains(helper_need_lower, user_skill_lower)
        \/ SkillsAreSimilar(helper_need.name, user_skill.name)

\* the (helper need, user skill) pairs in the order the loops try them
ReciprocalPairs(helper, user) ==
    FlatMap(LAMBDA helper_need :
                FlatMap(LAMBDA user_skill :
                            IF ReciprocalPair(helper_need, user_skill)
                            THEN << [helper_needs |-> helper_need.name,
                                     user_offers |-> user_skill.name] >>
                            ELSE <<>>,
                        user.skills_offered),
            helper.skills_needed)

\* a scan that also raises the score of a reciprocal match
CheckReciprocityBoosting(db_users, user, match) ==
    LET helper == GetUserById(db_users, match.matched_user_id)
    IN  IF helper = None THEN match
        ELSE IF ReciprocalPairs(helper, user) = <<>> THEN match
        ELSE [match EXCEPT !.is_reciprocal = TRUE,
                           !.match_score = @ + 10]

\* _check_reciprocity, one match
CheckReciprocityOf(db_users, user, match) ==
    LET helper == GetUserById(db_users, match.matched_user_id)
    IN  IF helper = None THEN match
        ELSE IF helper.skills_needed = <<>> \/ user.skills_offered = <<>>
        THEN match
        ELSE LET pairs == ReciprocalPairs(helper, user)
             IN  IF pairs = <<>> THEN match
                 ELSE [match EXCEPT
                         !.is_reciprocal = TRUE,
                         !.metadata.keys = @ \cup {"reverse_match"},
                         !.metadata.reverse_match = pairs[1]]

\* MatchingService._check_reciprocity
CheckReciprocity(db_users, user, matches) ==
    [i \in 1..Len(matches) |-> CheckReciprocityOf(db_users, user, matches[i])]

\* the top_k arguments tried
TopKs == {1, 2}

NoArgs == [user_id |-> NoUserId, top_k |-> 0, use_llm |-> FALSE]

\* the replies the judgment provider gives while re-ranking
JudgeReplies ==
    {Reply("ok", FencedJsonContent,
           Members(JNum(30), JBool(TRUE), JNum(80), AllFields)),
     Reply("ok", PlainContent,
           Members(JNum(150), JBool(FALSE), JNum(80), AllFields)),
     Reply("TimeoutException", <<>>, Members(JNull, JNull, JNull, {}))}

\* what awaiting analyze_match gives for one candidate
Judgments ==
    {[throws |-> TRUE, reply |-> NoReply]}
        \cup {[throws |-> FALSE, reply |-> r] : r \in JudgeReplies}

InitMatch ==
    /\ m_pc = "idle"
    /\ m_args = NoArgs
    /\ m_user = None
    /\ m_requests = <<>>
    /\ m_i = 0
    /\ m_need_embedding = <<>>
    /\ m_candidates = <<>>
    /\ m_j = 0
    /\ m_judged = <<>>
    /\ m_matches = <<>>
    /\ m_result = <<>>

\* no scan has run and no pair of names has been tested
InitRecip ==
    /\ r_pc = "idle"
    /\ r_users = <<>>
    /\ r_user = None
    /\ r_matches = <<>>
    /\ r_result = <<>>
    /\ r_pair = <<>>

\* both collections empty, nothing answered yet
InitMessages ==
    /\ message_requests = <<>>
    /\ messages = <<>>
    /\ msg_response = None

\* no similarity has been asked for
InitSim == sim = <<>>

\* compute_matches requests that can be in flight together
NumRequests == 2

ComputeRequests == 1..NumRequests

\* a compute_matches request that is not under way
IdleCompute ==
    [pc |-> "idle", user_id |-> NoUserId, top_k |-> 0, matches |-> <<>>,
     i |-> 0, existing |-> 0, stored |-> <<>>, status_code |-> 0]

\* the matches collection is empty and no request is under way
InitCompute ==
    /\ db_matches = <<>>
    /\ cm_calls = [r \in ComputeRequests |-> IdleCompute]
    /\ cm_count = 0

(***************************************************************************)
(* The user population the detector and the matcher run on.                *)
(***************************************************************************)
\* models/user.py SkillItem; an absent description is the empty string
Skill(name) == [name |-> name, description |-> <<>>]

\* models/user.py UserInDB, the fields the core reads
User(id, needed, offered) ==
    [id |-> id, is_active |-> TRUE,
     skills_needed |-> needed, skills_offered |-> offered]

UserIds == {"a", "b", "c"}

\* an id no stored user has
UnknownUserId == "zz"

\* the names a profile edit can add
EditNames == {React, Python, SQL}

\* number of profile edits a behaviour makes after its initial population
MaxEdits == 2

\* no declared skills at all
EmptyPopulation ==
    << User("a", <<>>, <<>>), User("b", <<>>, <<>>), User("c", <<>>, <<>>) >>

\* A needs React offers Python, B needs Python offers SQL, C needs SQL
\* offers React: A helps B, B helps C, C helps A
RingPopulation ==
    << User("a", <<Skill(React)>>, <<Skill(Python)>>),
       User("b", <<Skill(Python)>>, <<Skill(SQL)>>),
       User("c", <<Skill(SQL)>>, <<Skill(React)>> ) >>

\* two users who can help each other, each also able to help themself
PairPopulation ==
    << User("a", <<Skill(Python)>>, <<Skill(Django)>>),
       User("b", <<Skill(Django)>>, <<Skill(Python)>>),
       User("c", <<>>, <<>>) >>

\* A offers SQL and then Python, C offers Django and then React: B helps A,
\* C helps B and A, and A helps C with the skill it lists second
LaterSkillPopulation ==
    << User("a", <<Skill(React)>>, <<Skill(SQL), Skill(Python)>>),
       User("b", <<Skill(Python)>>, <<Skill(React)>>),
       User("c", <<Skill(Python)>>, <<Skill(Django), Skill(React)>>) >>

InitialPopulations ==
    {EmptyPopulation, RingPopulation, PairPopulation, LaterSkillPopulation}

InitUsers ==
    /\ added = 0
    /\ b_pc = "idle"
    /\ b_user_id = NoUserId
    /\ b_cycles = <<>>

InitBarter ==
    /\ users \in InitialPopulations
    /\ InitUsers
    /\ InitCache
    /\ cache = [k \in {} |-> None]
    /\ InitLLM
    /\ InitMatch
    /\ InitRecip
    /\ InitMessages
    /\ InitSim
    /\ InitCompute

\* PUT /users/me with a skills_needed list one item longer
AddNeed(i, name) ==
    /\ b_pc = "idle"
    /\ added < MaxEdits
    /\ users' = [users EXCEPT ![i].skills_needed = Append(@, Skill(name))]
    /\ added' = added + 1
    /\ UNCHANGED <<b_pc, b_user_id, b_cycles>>
    /\ UNCHANGED cacheVars
    /\ UNCHANGED llmVars
    /\ UNCHANGED recipVars
    /\ UNCHANGED msgVars
    /\ UNCHANGED simVars
    /\ UNCHANGED computeVars
    /\ UNCHANGED matchVars

\* PUT /users/me with a skills_offered list one item longer
AddOffer(i, name) ==
    /\ b_pc = "idle"
    /\ added < MaxEdits
    /\ users' = [users EXCEPT ![i].skills_offered = Append(@, Skill(name))]
    /\ added' = added + 1
    /\ UNCHANGED <<b_pc, b_user_id, b_cycles>>
    /\ UNCHANGED cacheVars
    /\ UNCHANGED llmVars
    /\ UNCHANGED recipVars
    /\ UNCHANGED msgVars
    /\ UNCHANGED simVars
    /\ UNCHANGED computeVars
    /\ UNCHANGED matchVars

\* an account is deactivated
Deactivate(i) ==
    /\ b_pc = "idle"
    /\ added < MaxEdits
    /\ users[i].is_active
    /\ users' = [users EXCEPT ![i].is_active = FALSE]
    /\ added' = added + 1
    /\ UNCHANGED <<b_pc, b_user_id, b_cycles>>
    /\ UNCHANGED cacheVars
    /\ UNCHANGED llmVars
    /\ UNCHANGED recipVars
    /\ UNCHANGED msgVars
    /\ UNCHANGED simVars
    /\ UNCHANGED computeVars
    /\ UNCHANGED matchVars

\* GET /barter/cycles: one call of detect_3way_cycles
DetectCycles(user_id) ==
    /\ b_pc = "idle"
    /\ b_pc' = "done"
    /\ b_user_id' = user_id
    /\ b_cycles' = Detect3WayCycles(users, user_id)
    /\ UNCHANGED <<users, added>>
    /\ UNCHANGED cacheVars
    /\ UNCHANGED llmVars
    /\ UNCHANGED recipVars
    /\ UNCHANGED msgVars
    /\ UNCHANGED simVars
    /\ UNCHANGED computeVars
    /\ UNCHANGED matchVars

\* the response has been sent
DetectReturn ==
    /\ b_pc = "done"
    /\ b_pc' = "idle"
    /\ b_user_id' = NoUserId
    /\ b_cycles' = <<>>
    /\ UNCHANGED <<users, added>>
    /\ UNCHANGED cacheVars
    /\ UNCHANGED llmVars
    /\ UNCHANGED recipVars
    /\ UNCHANGED msgVars
    /\ UNCHANGED simVars
    /\ UNCHANGED computeVars
    /\ UNCHANGED matchVars

NextBarter ==
    \/ \E i \in 1..Len(users), name \in EditNames : AddNeed(i, name)
    \/ \E i \in 1..Len(users), name \in EditNames : AddOffer(i, name)
    \/ \E i \in 1..Len(users) : Deactivate(i)
    \/ \E user_id \in UserIds \cup {UnknownUserId} : DetectCycles(user_id)
    \/ DetectReturn

SpecBarter == InitBarter /\ [][NextBarter]_vars

InitCacheOnly ==
    /\ users = EmptyPopulation
    /\ InitUsers
    /\ InitCache
    /\ InitLLM
    /\ InitMatch
    /\ InitRecip
    /\ InitMessages
    /\ InitSim
    /\ InitCompute

SpecCacheSeq == InitCacheOnly /\ [][NextCacheSeq]_vars

SpecCache == InitCacheOnly /\ [][NextCache]_vars

InitLLMOnly ==
    /\ InitCacheOnly
    /\ cache = [k \in {} |-> None]
    /\ model_name = "small"

SpecLLM == InitLLMOnly /\ [][NextLLM]_vars

\* find_matches_for_user, lines 59-66 and 104-110: the user is loaded, then the
\* potential helpers; a missing user, a user without needs and an empty
\* helper list end the call with []
MatchStart(user_id, top_k, use_llm) ==
    /\ m_pc = "idle"
    /\ calls[1].pc = "idle"
    /\ LET user == GetUserById(users, user_id)
           early == IF user = None THEN TRUE ELSE user.skills_needed = <<>>
           potential_helpers ==
               IF early THEN <<>>
               ELSE GetActiveUsers(users, MatchActiveUserLimit, user.id)
       IN  /\ m_user' = user
           /\ m_requests' = IF potential_helpers = <<>> THEN <<>>
                            ELSE EmbedRequests(user, potential_helpers)
           /\ m_pc' = IF potential_helpers = <<>> THEN "returned"
                      ELSE "retrieve"
    /\ m_args' = [user_id |-> user_id, top_k |-> top_k, use_llm |-> use_llm]
    /\ m_i' = 1
    /\ UNCHANGED <<m_need_embedding, m_candidates, m_j, m_judged, m_matches,
                   m_result>>
    /\ UNCHANGED barterVars
    /\ UNCHANGED cacheVars
    /\ UNCHANGED llmVars
    /\ UNCHANGED recipVars
    /\ UNCHANGED msgVars
    /\ UNCHANGED simVars
    /\ UNCHANGED computeVars

\* lines 119-124 and 135-140: the next get_or_create call is entered
MatchEmbedCall(read_ok) ==
    /\ m_pc = "retrieve"
    /\ m_i <= Len(m_requests)
    /\ calls' = [calls EXCEPT ![1] =
            GocReadCall(m_requests[m_i].key, m_requests[m_i].text, read_ok)]
    /\ m_pc' = "embedding"
    /\ UNCHANGED <<cache, model_name, now, last>>
    /\ UNCHANGED <<m_args, m_user, m_requests, m_i, m_need_embedding,
                   m_candidates, m_j, m_judged, m_matches, m_result>>
    /\ UNCHANGED barterVars
    /\ UNCHANGED llmVars
    /\ UNCHANGED recipVars
    /\ UNCHANGED msgVars
    /\ UNCHANGED simVars
    /\ UNCHANGED computeVars

\* the awaited get_or_create raised: nothing in _retrieve_candidates or
\* find_matches_for_user catches it
MatchEmbedRaised ==
    /\ m_pc = "embedding"
    /\ calls[1].pc = "raised"
    /\ m_pc' = "raised"
    /\ UNCHANGED <<m_args, m_user, m_requests, m_i, m_need_embedding,
                   m_candidates, m_j, m_judged, m_matches, m_result>>
    /\ UNCHANGED barterVars
    /\ UNCHANGED cacheVars
    /\ UNCHANGED llmVars
    /\ UNCHANGED recipVars
    /\ UNCHANGED msgVars
    /\ UNCHANGED simVars
    /\ UNCHANGED computeVars

\* lines 143-166: get_or_create returned; a need's vector is kept, a skill's
\* vector is compared with it and the pair kept when similar enough
MatchEmbedReturned ==
    /\ m_pc = "embedding"
    /\ calls[1].pc = "returned"
    /\ LET request == m_requests[m_i]
           vector == calls[1].result
           similarity == CosineSimilarity(m_need_embedding, vector)
       IN  IF request.kind = "need"
           THEN /\ m_need_embedding' = vector
                /\ m_candidates' = m_candidates
           ELSE /\ m_need_embedding' = m_need_embedding
                /\ m_candidates' =
                     IF similarity >= MIN_EMBEDDING_SIMILARITY
                     THEN Append(m_candidates,
                                 Candidate(m_user, request, similarity))
                     ELSE m_candidates
    /\ m_i' = m_i + 1
    /\ m_pc' = "retrieve"
    /\ calls' = [calls EXCEPT ![1] = IdleCall]
    /\ UNCHANGED <<cache, model_name, now, last>>
    /\ UNCHANGED <<m_args, m_user, m_requests, m_j, m_judged, m_matches,
                   m_result>>
    /\ UNCHANGED barterVars
    /\ UNCHANGED llmVars
    /\ UNCHANGED recipVars
    /\ UNCHANGED msgVars
    /\ UNCHANGED simVars
    /\ UNCHANGED computeVars

\* lines 168-172 and 69-81: the candidates are sorted and cut to top_k * 2;
\* none ends the call with [], else phase 2 starts, or, without the LLM, the
\* candidates are converted and checked for reciprocity
MatchRetrieved ==
    /\ m_pc = "retrieve"
    /\ m_i > Len(m_requests)
    /\ LET candidates == TopCandidates(m_candidates, m_args.top_k * 2)
           matches == ConvertCandidatesToMatches(candidates, m_args.top_k)
       IN  /\ m_candidates' = candidates
           /\ IF candidates = <<>>
              THEN m_pc' = "returned" /\ UNCHANGED <<m_matches, m_result>>
              ELSE IF m_args.use_llm
              THEN m_pc' = "rerank" /\ UNCHANGED <<m_matches, m_result>>
              ELSE /\ m_pc' = "returned"
                   /\ m_matches' = matches
                   /\ m_result' = CheckReciprocity(users, m_user, matches)
    /\ m_j' = 1
    /\ UNCHANGED <<m_args, m_user, m_requests, m_i, m_need_embedding,
                   m_judged>>
    /\ UNCHANGED barterVars
    /\ UNCHANGED cacheVars
    /\ UNCHANGED llmVars
    /\ UNCHANGED recipVars
    /\ UNCHANGED msgVars
    /\ UNCHANGED simVars
    /\ UNCHANGED computeVars

\* _rerank_with_llm, one iteration of the loop over the candidates
MatchRerankStep(judgment) ==
    /\ m_pc = "rerank"
    /\ m_j <= Len(m_candidates)
    /\ LET r == RerankCandidate(m_user, m_candidates[m_j], judgment)
       IN  /\ m_pc' = IF r.raised THEN "raised" ELSE "rerank"
           /\ m_matches' = m_matches \o r.appended
    /\ m_judged' = Append(m_judged, judgment)
    /\ m_j' = m_j + 1
    /\ UNCHANGED <<m_args, m_user, m_requests, m_i, m_need_embedding,
                   m_candidates, m_result>>
    /\ UNCHANGED barterVars
    /\ UNCHANGED cacheVars
    /\ UNCHANGED llmVars
    /\ UNCHANGED recipVars
    /\ UNCHANGED msgVars
    /\ UNCHANGED simVars
    /\ UNCHANGED computeVars

\* lines 265-271 and 82-84: after the loop the matches are sorted, cut to
\* top_k and checked for reciprocity
MatchReranked ==
    /\ m_pc = "rerank"
    /\ m_j > Len(m_candidates)
    /\ m_result' = CheckReciprocity(users, m_user,
                                    TopMatches(m_matches, m_args.top_k))
    /\ m_pc' = "returned"
    /\ UNCHANGED <<m_args, m_user, m_requests, m_i, m_need_embedding,
                   m_candidates, m_j, m_judged, m_matches>>
    /\ UNCHANGED barterVars
    /\ UNCHANGED cacheVars
    /\ UNCHANGED llmVars
    /\ UNCHANGED recipVars
    /\ UNCHANGED msgVars
    /\ UNCHANGED simVars
    /\ UNCHANGED computeVars

\* the caller has taken the list, or the exception
MatchReturn ==
    /\ m_pc \in {"returned", "raised"}
    /\ m_pc' = "idle"
    /\ m_args' = NoArgs
    /\ m_user' = None
    /\ m_requests' = <<>>
    /\ m_i' = 0
    /\ m_need_embedding' = <<>>
    /\ m_candidates' = <<>>
    /\ m_j' = 0
    /\ m_judged' = <<>>
    /\ m_matches' = <<>>
    /\ m_result' = <<>>
    /\ calls' = [calls EXCEPT ![1] = IdleCall]
    /\ UNCHANGED <<cache, model_name, now, last>>
    /\ UNCHANGED barterVars
    /\ UNCHANGED llmVars
    /\ UNCHANGED recipVars
    /\ UNCHANGED msgVars
    /\ UNCHANGED simVars
    /\ UNCHANGED computeVars

\* one request at a time; the clock stands still, the times stored with the
\* cache entries play no part in matching
NextMatch ==
    \/ /\ m_pc = "idle"
       /\ \E user_id \in UserIds \cup {UnknownUserId}, top_k \in TopKs,
             use_llm \in BOOLEAN : MatchStart(user_id, top_k, use_llm)
    \/ \E read_ok \in BOOLEAN : MatchEmbedCall(read_ok)
    \/ /\ m_pc = "embedding"
       /\ \E provider_ok \in BOOLEAN : GocEmbed(1, provider_ok, 0)
    \/ /\ m_pc = "embedding"
       /\ \E upsert_ok \in BOOLEAN : GocUpsert(1, upsert_ok)
    \/ MatchEmbedRaised
    \/ MatchEmbedReturned
    \/ MatchRetrieved
    \/ \E judgment \in Judgments : MatchRerankStep(judgment)
    \/ MatchReranked
    \/ MatchReturn

\* A needs React; B offers React and Django and needs Python; C offers SQL
\* and Python
MatchPopulation ==
    << User("a", <<Skill(React)>>, <<Skill(Python)>>),
       User("b", <<Skill(Python)>>, <<Skill(React), Skill(Django)>>),
       User("c", <<>>, <<Skill(SQL), Skill(Python)>>) >>

\* A needs React; B offers SQL and React; C offers React and Redux: three
\* offered skills are equally similar to the need
TiePopulation ==
    << User("a", <<Skill(React)>>, <<>>),
       User("b", <<>>, <<Skill(SQL), Skill(React)>>),
       User("c", <<Skill(React)>>, <<Skill(React), Skill(Redux)>>) >>

InitMatchOnly ==
    /\ users \in {EmptyPopulation, RingPopulation, MatchPopulation,
                  TiePopulation}
    /\ InitUsers
    /\ InitCache
    /\ InitLLM
    /\ InitMatch
    /\ InitRecip
    /\ InitMessages
    /\ InitSim
    /\ InitCompute

SpecMatch == InitMatchOnly /\ [][NextMatch]_vars

(***************************************************************************)
(* The reciprocity scan and the two lexical tests on their own.            *)
(***************************************************************************)
\* a name with trailing and one with leading white space
SQLTrailing == <<"S","Q","L"," ">>

SQLLeading == <<" ","S","Q","L">>

Data == <<"D","a","t","a">>

Analytics == <<"A","n","a","l","y","t","i","c","s">>

ReactJS == <<"r","e","a","c","t","j","s">>

\* SkillItem.name is any str: the names the two tests are tried on
SkillNames ==
    {React, Python, SQL, Django, SQLTrailing, SQLLeading, Data, Analytics,
     ReactJS}

\* the names the profiles of a scan declare
ScanNames == {React, Python, Django, SQLTrailing, SQLLeading}

\* number of skills a profile of the scan declares at most
MaxSkills == 2

\* the skill lists of at most MaxSkills skills
SkillLists ==
    UNION { [1..n -> {Skill(name) : name \in ScanNames}] : n \in 0..MaxSkills }

\* the stored users of a scan: the seeker A, the helper B, and C who needs
\* nothing
ScanUsers(offered, needed) ==
    << User("a", <<Skill(React)>>, offered),
       User("b", needed, <<Skill(React)>>),
       User("c", <<>>, <<Skill(ReactJS)>>) >>

\* the matches handed to a scan: B, C and a helper no longer stored, built
\* as _convert_candidates_to_matches builds them
ScanMatches(stored) ==
    LET user == stored[1]
        need == user.skills_needed[1]
        gone == User(UnknownUserId, <<Skill(Python)>>, <<Skill(React)>>)
        For(helper, similarity) ==
            Candidate(user,
                      [helper |-> helper, skill |-> helper.skills_offered[1],
                       need |-> need],
                      similarity)
    IN  ConvertCandidatesToMatches(
            << For(stored[2], 100), For(stored[3], 80), For(gone, 60) >>, 3)

\* _check_reciprocity is called on the matches of a seeker
ScanCall(offered, needed) ==
    /\ r_pc = "idle"
    /\ r_pc' = "scanning"
    /\ r_users' = ScanUsers(offered, needed)
    /\ r_user' = ScanUsers(offered, needed)[1]
    /\ r_matches' = ScanMatches(ScanUsers(offered, needed))
    /\ r_result' = <<>>
    /\ UNCHANGED r_pair
    /\ UNCHANGED barterVars
    /\ UNCHANGED cacheVars
    /\ UNCHANGED llmVars
    /\ UNCHANGED matchVars
    /\ UNCHANGED msgVars
    /\ UNCHANGED simVars
    /\ UNCHANGED computeVars

\* lines 312-357: the loop over the matches, and the return
ScanReturn ==
    /\ r_pc = "scanning"
    /\ r_pc' = "scanned"
    /\ r_result' = CheckReciprocity(r_users, r_user, r_matches)
    /\ UNCHANGED <<r_users, r_user, r_matches, r_pair>>
    /\ UNCHANGED barterVars
    /\ UNCHANGED cacheVars
    /\ UNCHANGED llmVars
    /\ UNCHANGED matchVars
    /\ UNCHANGED msgVars
    /\ UNCHANGED simVars
    /\ UNCHANGED computeVars

\* the caller has taken the list, or the two answers
ScanDone ==
    /\ r_pc \in {"scanned", "tested"}
    /\ r_pc' = "idle"
    /\ r_users' = <<>>
    /\ r_user' = None
    /\ r_matches' = <<>>
    /\ r_result' = <<>>
    /\ r_pair' = <<>>
    /\ UNCHANGED barterVars
    /\ UNCHANGED cacheVars
    /\ UNCHANGED llmVars
    /\ UNCHANGED matchVars
    /\ UNCHANGED msgVars
    /\ UNCHANGED simVars
    /\ UNCHANGED computeVars

\* both services are asked about one (need name, offered name) pair:
\* barter_service.py lines 97-101 and matching_service.py lines 329-333
TestPair(need_name, skill_name) ==
    /\ r_pc = "idle"
    /\ r_pair' =
        << [need |-> need_name, offered |-> skill_name,
            can_help |-> BarterSkillCondition(need_name, skill_name),
            can_help_back |->
                ReciprocalPair(Skill(need_name), Skill(skill_name)),
            can_help_back_swapped |->
                ReciprocalPair(Skill(skill_name), Skill(need_name))] >>
    /\ r_pc' = "tested"
    /\ UNCHANGED <<r_users, r_user, r_matches, r_result>>
    /\ UNCHANGED barterVars
    /\ UNCHANGED cacheVars
    /\ UNCHANGED llmVars
    /\ UNCHANGED matchVars
    /\ UNCHANGED msgVars
    /\ UNCHANGED simVars
    /\ UNCHANGED computeVars

NextRecip ==
    \/ /\ r_pc = "idle"
       /\ \E offered, needed \in SkillLists : ScanCall(offered, needed)
    \/ ScanReturn
    \/ ScanDone
    \/ \E need_name, skill_name \in SkillNames : TestPair(need_name, skill_name)

SpecRecip == InitLLMOnly /\ [][NextRecip]_vars

(***************************************************************************)
(* api/routes/messages.py: message requests and gated messages.            *)
(***************************************************************************)
\* models/message.py MessageRequestStatus
PENDING == "pending"

ACCEPTED == "accepted"

REJECTED == "rejected"

\* the authenticated users who call the routes
MsgUsers == {"a", "b"}

\* number of message requests a behaviour inserts at most
MaxRequests == 2

\* number of messages a behaviour inserts at most
MaxMessages == 2

\* a request id no stored request has
UnknownRequestId == 0

\* the response of a route: its HTTP status, with the call it answers
Response(op, user_id, to_user_id, status_code) ==
    [op |-> op, user_id |-> user_id, to_user_id |-> to_user_id,
     status_code |-> status_code]

\* send_message_request lines 41-45: find_one for a request from the caller
\* to that user whose status is not rejected
FindExistingRequest(requests, from_user_id, to_user_id) ==
    \E i \in 1..Len(requests) :
        /\ requests[i].from_user_id = from_user_id
        /\ requests[i].to_user_id = to_user_id
        /\ requests[i].status # REJECTED

\* a lookup that finds a request between the two users whatever its status
FindAnyRequest(requests, current_user_id, to_user_id) ==
    \E i \in 1..Len(requests) :
        \/ /\ requests[i].from_user_id = current_user_id
           /\ requests[i].to_user_id = to_user_id
        \/ /\ requests[i].from_user_id = to_user_id
           /\ requests[i].to_user_id = current_user_id

\* send_message lines 232-238: find_one for an accepted request between the
\* two users, in either direction
FindAcceptedRequest(requests, current_user_id, to_user_id) ==
    \E i \in 1..Len(requests) :
        /\ \/ /\ requests[i].from_user_id = current_user_id
              /\ requests[i].to_user_id = to_user_id
           \/ /\ requests[i].from_user_id = to_user_id
              /\ requests[i].to_user_id = current_user_id
        /\ requests[i].status = ACCEPTED

\* POST /messages/request
SendMessageRequest(current_user_id, to_user_id) ==
    /\ Len(message_requests) < MaxRequests
    /\ IF FindExistingRequest(message_requests, current_user_id, to_user_id)
       THEN /\ msg_response' =
                    Response("request", current_user_id, to_user_id, 400)
            /\ UNCHANGED message_requests
       ELSE /\ message_requests' =
                    Append(message_requests,
                           [from_user_id |-> current_user_id,
                            to_user_id |-> to_user_id,
                            status |-> PENDING])
            /\ msg_response' =
                    Response("request", current_user_id, to_user_id, 200)
    /\ UNCHANGED messages
    /\ UNCHANGED barterVars
    /\ UNCHANGED cacheVars
    /\ UNCHANGED llmVars
    /\ UNCHANGED matchVars
    /\ UNCHANGED recipVars
    /\ UNCHANGED simVars
    /\ UNCHANGED computeVars

\* PUT /messages/requests/{request_id}/accept: the status is set and the
\* initial message is inserted
AcceptMessageRequest(current_user_id, request_id) ==
    /\ IF request_id \notin 1..Len(message_requests)
       THEN /\ msg_response' =
                    Response("accept", current_user_id, "", 404)
            /\ UNCHANGED <<message_requests, messages>>
       ELSE IF message_requests[request_id].to_user_id # current_user_id
       THEN /\ msg_response' =
                    Response("accept", current_user_id, "", 403)
            /\ UNCHANGED <<message_requests, messages>>
       ELSE /\ Len(messages) < MaxMessages
            /\ message_requests' =
                    [message_requests EXCEPT ![request_id].status = ACCEPTED]
            /\ messages' =
                    Append(messages,
                           [from_user_id |->
                                message_requests[request_id].from_user_id,
                            to_user_id |-> current_user_id,
                            is_read |-> TRUE,
                            stored_by |-> "accept"])
            /\ msg_response' =
                    Response("accept", current_user_id, "", 200)
    /\ UNCHANGED barterVars
    /\ UNCHANGED cacheVars
    /\ UNCHANGED llmVars
    /\ UNCHANGED matchVars
    /\ UNCHANGED recipVars
    /\ UNCHANGED simVars
    /\ UNCHANGED computeVars

\* PUT /messages/requests/{request_id}/reject
RejectMessageRequest(current_user_id, request_id) ==
    /\ IF request_id \notin 1..Len(message_requests)
       THEN /\ msg_response' =
                    Response("reject", current_user_id, "", 404)
            /\ UNCHANGED message_requests
       ELSE IF message_requests[request_id].to_user_id # current_user_id
       THEN /\ msg_response' =
                    Response("reject", current_user_id, "", 403)
            /\ UNCHANGED message_requests
       ELSE /\ message_requests' =
                    [message_requests EXCEPT ![request_id].status = REJECTED]
            /\ msg_response' =
                    Response("reject", current_user_id, "", 200)
    /\ UNCHANGED messages
    /\ UNCHANGED barterVars
    /\ UNCHANGED cacheVars
    /\ UNCHANGED llmVars
    /\ UNCHANGED matchVars
    /\ UNCHANGED recipVars
    /\ UNCHANGED simVars
    /\ UNCHANGED computeVars

\* POST /messages/send: the connection is looked up; without one the
\* answer is 403, with one the message is inserted
SendMessage(current_user_id, to_user_id) ==
    /\ IF FindAcceptedRequest(message_requests, current_user_id, to_user_id)
       THEN /\ Len(messages) < MaxMessages
            /\ messages' =
                    Append(messages,
                           [from_user_id |-> current_user_id,
                            to_user_id |-> to_user_id,
                            is_read |-> FALSE,
                            stored_by |-> "send"])
            /\ msg_response' =
                    Response("send", current_user_id, to_user_id, 200)
       ELSE /\ msg_response' =
                    Response("send", current_user_id, to_user_id, 403)
            /\ UNCHANGED messages
    /\ UNCHANGED message_requests
    /\ UNCHANGED barterVars
    /\ UNCHANGED cacheVars
    /\ UNCHANGED llmVars
    /\ UNCHANGED matchVars
    /\ UNCHANGED recipVars
    /\ UNCHANGED simVars
    /\ UNCHANGED computeVars

NextMessages ==
    \/ \E current_user_id, to_user_id \in MsgUsers :
            SendMessageRequest(current_user_id, to_user_id)
    \/ \E current_user_id \in MsgUsers,
          request_id \in {UnknownRequestId} \cup (1..MaxRequests) :
            AcceptMessageRequest(current_user_id, request_id)
    \/ \E current_user_id \in MsgUsers,
          request_id \in {UnknownRequestId} \cup (1..MaxRequests) :
            RejectMessageRequest(current_user_id, request_id)
    \/ \E current_user_id, to_user_id \in MsgUsers :
            SendMessage(current_user_id, to_user_id)

SpecMessages == InitLLMOnly /\ [][NextMessages]_vars

(***************************************************************************)
(* utils/similarity.py and EmbeddingService.cosine_similarity on their own.*)
(***************************************************************************)
\* utils.similarity.cosine_similarity, lines 32-55, in hundredths
UtilsCosineSimilarity(vec_a, vec_b) ==
    IF Len(vec_a) = 0 \/ Len(vec_b) = 0
    THEN [raised |-> TRUE, score |-> 0]
    ELSE IF Len(vec_a) # Len(vec_b)
    THEN [raised |-> TRUE, score |-> 0]
    ELSE IF Norm(vec_a) = 0 \/ Norm(vec_b) = 0
    THEN [raised |-> FALSE, score |-> 0]
    ELSE [raised |-> FALSE,
          score |-> Max(-100, Min(100, (Dot(vec_a, vec_b) * 100)
                                        \div (Norm(vec_a) * Norm(vec_b))))]

\* a call of EmbeddingService.cosine_similarity: the norm test comes first
\* and an empty array has norm 0; np.dot raises ValueError on arrays of
\* different lengths
ServiceCosineSimilarity(a, b) ==
    IF Norm(a) = 0 \/ Norm(b) = 0
    THEN [raised |-> FALSE, score |-> 0]
    ELSE IF Len(a) # Len(b)
    THEN [raised |-> TRUE, score |-> 0]
    ELSE [raised |-> FALSE, score |-> CosineSimilarity(a, b)]

\* lines 89-99: the (index, score) pairs of the corpus, indices from 0
BatchSimilarities(query_vec, corpus_vecs) ==
    [i \in 1..Len(corpus_vecs) |->
        << i - 1,
           IF Norm(corpus_vecs[i]) = 0 THEN 0
           ELSE Max(-100, Min(100, (Dot(query_vec, corpus_vecs[i]) * 100)
                        \div (Norm(query_vec) * Norm(corpus_vecs[i])))) >>]

\* a batch that cuts the pairs without sorting them
BatchInCorpusOrder(query_vec, corpus_vecs, top_k) ==
    IF corpus_vecs = <<>> THEN <<>>
    ELSE IF Norm(query_vec) = 0
    THEN [i \in 1..Min(top_k, Len(corpus_vecs)) |-> <<i - 1, 0>>]
    ELSE Take(BatchSimilarities(query_vec, corpus_vecs), top_k)

\* utils.similarity.batch_cosine_similarity
BatchCosineSimilarity(query_vec, corpus_vecs, top_k) ==
    IF corpus_vecs = <<>> THEN <<>>
    ELSE IF Norm(query_vec) = 0
    THEN [i \in 1..Min(top_k, Len(corpus_vecs)) |-> <<i - 1, 0>>]
    ELSE Take(SortDesc(LAMBDA x : x[2],
                       BatchSimilarities(query_vec, corpus_vecs)),
              top_k)

\* two-dimensional vectors with whole-number norms, the zero vector included
PlaneVectors == {<<5, 0>>, <<3, 4>>, <<10, 0>>, <<-5, 0>>, <<0, 0>>}

\* the query vectors of the batch calls
QueryVectors == {<<5, 0>>, <<3, 4>>, <<0, 0>>}

\* the empty vector and vectors of another dimension
OtherVectors == {<<>>, <<3, 4, 0>>, <<0, 0, 0>>}

\* number of corpus vectors of a batch at most
MaxCorpus == 3

\* the corpora of at most MaxCorpus vectors
Corpora == UNION { [1..n -> PlaneVectors] : n \in 0..MaxCorpus }

\* one call of batch_cosine_similarity
BatchCall(query_vec, corpus_vecs, top_k) ==
    /\ sim = <<>>
    /\ sim' = << [op |-> "batch", query_vec |-> query_vec,
                  corpus_vecs |-> corpus_vecs, top_k |-> top_k,
                  result |-> BatchCosineSimilarity(query_vec, corpus_vecs,
                                                   top_k)] >>
    /\ UNCHANGED barterVars
    /\ UNCHANGED cacheVars
    /\ UNCHANGED llmVars
    /\ UNCHANGED matchVars
    /\ UNCHANGED recipVars
    /\ UNCHANGED msgVars
    /\ UNCHANGED computeVars

\* one call of each cosine_similarity on the same two vectors
CosineCall(vec_a, vec_b) ==
    /\ sim = <<>>
    /\ sim' = << [op |-> "cosine", vec_a |-> vec_a, vec_b |-> vec_b,
                  utils_raised |-> UtilsCosineSimilarity(vec_a, vec_b).raised,
                  utils_score |-> UtilsCosineSimilarity(vec_a, vec_b).score,
                  service_raised |->
                        ServiceCosineSimilarity(vec_a, vec_b).raised,
                  service_score |->
                        ServiceCosineSimilarity(vec_a, vec_b).score] >>
    /\ UNCHANGED barterVars
    /\ UNCHANGED cacheVars
    /\ UNCHANGED llmVars
    /\ UNCHANGED matchVars
    /\ UNCHANGED recipVars
    /\ UNCHANGED msgVars
    /\ UNCHANGED computeVars

\* the caller has taken the result
SimReturn ==
    /\ sim # <<>>
    /\ sim' = <<>>
    /\ UNCHANGED barterVars
    /\ UNCHANGED cacheVars
    /\ UNCHANGED llmVars
    /\ UNCHANGED matchVars
    /\ UNCHANGED recipVars
    /\ UNCHANGED msgVars
    /\ UNCHANGED computeVars

NextSim ==
    \/ SimReturn
    \/ \E query_vec \in QueryVectors, corpus_vecs \in Corpora,
          top_k \in 0..(MaxCorpus + 1) :
            BatchCall(query_vec, corpus_vecs, top_k)
    \/ \E vec_a, vec_b \in PlaneVectors \cup OtherVectors :
            CosineCall(vec_a, vec_b)

SpecSim == InitLLMOnly /\ [][NextSim]_vars

(***************************************************************************)
(* api/routes/matching.py and services/storage_service.py: compute_matches *)
(* and the matches collection.                                             *)
(***************************************************************************)
EXPIRED == "expired"

\* the most documents db.matches holds
MaxMatchRecords == 3

\* the compute_matches requests a behaviour makes
MaxComputes == 3

\* the top_k a request asks for
ComputeTopKs == {1, 3}

\* _retrieve_candidates, lines 115-166, the loop over the get_or_create
\* calls when each returns the provider's vector for its text
RECURSIVE RetrieveFrom(_, _, _, _, _)
RetrieveFrom(model, user, requests, i, need_embedding) ==
    IF i > Len(requests) THEN <<>>
    ELSE
      LET request == requests[i]
          vector == ProviderEmbed(model, request.text)
          similarity == CosineSimilarity(need_embedding, vector)
      IN  IF request.kind = "need"
          THEN RetrieveFrom(model, user, requests, i + 1, vector)
          ELSE (IF similarity >= MIN_EMBEDDING_SIMILARITY
                THEN <<Candidate(user, request, similarity)>>
                ELSE <<>>)
               \o RetrieveFrom(model, user, requests, i + 1, need_embedding)

\* MatchingService.find_matches_for_user(user_id, top_k, use_llm=False) when
\* no provider call fails
FindMatchesForUser(model, db_users, user_id, top_k) ==
    LET user == GetUserById(db_users, user_id)
    IN  IF user = None THEN <<>>
        ELSE IF user.skills_needed = <<>> THEN <<>>
        ELSE
          LET potential_helpers ==
                  GetActiveUsers(db_users, MatchActiveUserLimit, user.id)
              candidates ==
                  IF potential_helpers = <<>> THEN <<>>
                  ELSE TopCandidates(
                           RetrieveFrom(model, user,
                                        EmbedRequests(user, potential_helpers),
                                        1, <<>>),
                           top_k * 2)
          IN  IF candidates = <<>> THEN <<>>
              ELSE CheckReciprocity(
                       db_users, user,
                       ConvertCandidatesToMatches(candidates, top_k))

\* StorageService.create_match: the MatchInDB built from MatchCreate, which
\* has no is_reciprocal field, so the stored document has the default False
CreatedMatch(id, match) ==
    [id |-> id,
     user_id |-> match.user_id,
     matched_user_id |-> match.matched_user_id,
     skill_offered |-> match.skill_offered,
     skill_needed |-> match.skill_needed,
     match_score |-> match.match_score,
     confidence |-> match.confidence,
     explanation |-> match.explanation,
     metadata |-> match.metadata,
     status |-> PENDING,
     is_reciprocal |-> FALSE]

\* StorageService.check_existing_match: the _id of the first document of the
\* pair whose status is not rejected, or 0 for None
CheckExistingMatch(stored_matches, user_id, matched_user_id) ==
    LET found == {k \in 1..Len(stored_matches) :
                     /\ stored_matches[k].user_id = user_id
                     /\ stored_matches[k].matched_user_id = matched_user_id
                     /\ stored_matches[k].status # REJECTED}
    IN  IF found = {} THEN 0
        ELSE CHOOSE k \in found : \A other \in found : k <= other

\* StorageService.update_match_status: $set of the status; the _id of a
\* document is its position in the collection
UpdateMatchStatus(stored_matches, match_id, status) ==
    [stored_matches EXCEPT ![match_id].status = status]

\* compute_matches, lines 66-82: 400 for a user without needs, else the
\* matches are found
ComputeCall(r, user_id, top_k) ==
    /\ cm_calls[r].pc = "idle"
    /\ cm_count < MaxComputes
    /\ cm_count' = cm_count + 1
    /\ LET current_user == GetUserById(users, user_id)
           found == FindMatchesForUser(model_name, users, user_id, top_k)
       IN  cm_calls' = [cm_calls EXCEPT ![r] =
               IF current_user.skills_needed = <<>>
               THEN [IdleCompute EXCEPT !.pc = "respond", !.user_id = user_id,
                                        !.top_k = top_k, !.status_code = 400]
               ELSE [IdleCompute EXCEPT
                        !.pc = IF found = <<>> THEN "respond" ELSE "check",
                        !.user_id = user_id, !.top_k = top_k,
                        !.matches = found, !.i = 1, !.status_code = 200]]
    /\ UNCHANGED db_matches
    /\ UNCHANGED barterVars
    /\ UNCHANGED cacheVars
    /\ UNCHANGED llmVars
    /\ UNCHANGED matchVars
    /\ UNCHANGED recipVars
    /\ UNCHANGED msgVars
    /\ UNCHANGED simVars

\* lines 87-91: the awaited check_existing_match for the next match
ComputeCheck(r) ==
    /\ cm_calls[r].pc = "check"
    /\ LET c == cm_calls[r]
       IN  cm_calls' = [cm_calls EXCEPT ![r] =
               [c EXCEPT !.pc = "write",
                         !.existing =
                            CheckExistingMatch(db_matches, c.user_id,
                                               c.matches[c.i].matched_user_id)]]
    /\ UNCHANGED <<db_matches, cm_count>>
    /\ UNCHANGED barterVars
    /\ UNCHANGED cacheVars
    /\ UNCHANGED llmVars
    /\ UNCHANGED matchVars
    /\ UNCHANGED recipVars
    /\ UNCHANGED msgVars
    /\ UNCHANGED simVars

\* lines 93-117: an existing match is set to pending, else a match is
\* created; the stored document is appended to stored_matches
ComputeWrite(r) ==
    /\ cm_calls[r].pc = "write"
    /\ LET c == cm_calls[r]
           next_pc == IF c.i = Len(c.matches) THEN "respond" ELSE "check"
       IN  IF c.existing # 0
           THEN /\ db_matches' =
                        UpdateMatchStatus(db_matches, c.existing, PENDING)
                /\ cm_calls' = [cm_calls EXCEPT ![r] =
                        [c EXCEPT !.pc = next_pc, !.i = c.i + 1,
                                  !.existing = 0,
                                  !.stored = Append(c.stored,
                                                db_matches'[c.existing])]]
           ELSE /\ Len(db_matches) < MaxMatchRecords
                /\ db_matches' =
                        Append(db_matches,
                               CreatedMatch(Len(db_matches) + 1, c.matches[c.i]))
                /\ cm_calls' = [cm_calls EXCEPT ![r] =
                        [c EXCEPT !.pc = next_pc, !.i = c.i + 1,
                                  !.stored = Append(c.stored,
                                                db_matches'[Len(db_matches')])]]
    /\ UNCHANGED cm_count
    /\ UNCHANGED barterVars
    /\ UNCHANGED cacheVars
    /\ UNCHANGED llmVars
    /\ UNCHANGED matchVars
    /\ UNCHANGED recipVars
    /\ UNCHANGED msgVars
    /\ UNCHANGED simVars

\* lines 121-140: the response has been sent
ComputeReturn(r) ==
    /\ cm_calls[r].pc = "respond"
    /\ cm_calls' = [cm_calls EXCEPT ![r] = IdleCompute]
    /\ UNCHANGED <<db_matches, cm_count>>
    /\ UNCHANGED barterVars
    /\ UNCHANGED cacheVars
    /\ UNCHANGED llmVars
    /\ UNCHANGED matchVars
    /\ UNCHANGED recipVars
    /\ UNCHANGED msgVars
    /\ UNCHANGED simVars

\* PUT /matches/{match_id}/status: the seeker or the helper answers a
\* pending match
SetMatchStatus(match_id, status) ==
    /\ match_id \in 1..Len(db_matches)
    /\ db_matches[match_id].status = PENDING
    /\ db_matches' = UpdateMatchStatus(db_matches, match_id, status)
    /\ UNCHANGED <<cm_calls, cm_count>>
    /\ UNCHANGED barterVars
    /\ UNCHANGED cacheVars
    /\ UNCHANGED llmVars
    /\ UNCHANGED matchVars
    /\ UNCHANGED recipVars
    /\ UNCHANGED msgVars
    /\ UNCHANGED simVars

NextCompute ==
    \/ \E r \in ComputeRequests, user_id \in UserIds, top_k \in ComputeTopKs :
           ComputeCall(r, user_id, top_k)
    \/ \E r \in ComputeRequests : ComputeCheck(r)
    \/ \E r \in ComputeRequests : ComputeWrite(r)
    \/ \E r \in ComputeRequests : ComputeReturn(r)
    \/ \E match_id \in 1..MaxMatchRecords,
          status \in {ACCEPTED, REJECTED, EXPIRED} :
           SetMatchStatus(match_id, status)

InitComputeOnly ==
    /\ users = MatchPopulation
    /\ InitUsers
    /\ InitCache
    /\ cache = [k \in {} |-> None]
    /\ model_name = "small"
    /\ InitLLM
    /\ InitMatch
    /\ InitRecip
    /\ InitMessages
    /\ InitSim
    /\ InitCompute

SpecCompute == InitComputeOnly /\ [][NextCompute]_vars

(***************************************************************************)
(* Claims about the cycle detector.                                        *)
(***************************************************************************)
\* some need of `seeker` is compatible with an offered skill of `helper`
HelpsSomeNeed(helper, seeker) ==
    \E i \in 1..Len(seeker.skills_needed) :
        CanHelp(helper, seeker.skills_needed[i])

\* b helps a, c helps b and a helps c, for three distinct users, b and c active
ThreeLegs(a, b, c) ==
    /\ a.id # b.id /\ b.id # c.id /\ a.id # c.id
    /\ b.is_active /\ c.is_active
    /\ HelpsSomeNeed(b, a)
    /\ HelpsSomeNeed(c, b)
    /\ HelpsSomeNeed(a, c)

ParticipantIds(cycle) ==
    {cycle.participants[i].user_id : i \in 1..Len(cycle.participants)}

\* C1: whenever users B and C satisfy the three legs with the caller A (B
\* helps a need of A, C helps a need of B, A helps a need of C), the list
\* returned by detect_3way_cycles(A) holds a cycle whose participants are
\* exactly {A, B, C}.
C1_EveryRingIsDetected ==
    b_pc = "done" =>
        LET a == GetUserById(users, b_user_id)
        IN  a # None =>
              \A i, j \in 1..Len(users) :
                  ThreeLegs(a, users[i], users[j]) =>
                      \E k \in 1..Len(b_cycles) :
                          ParticipantIds(b_cycles[k])
                              = {a.id, users[i].id, users[j].id}

(***************************************************************************)
(* Claims about the embedding cache.                                       *)
(***************************************************************************)
\* the call of the single caller of SpecCacheSeq
TheCall == calls[1]

\* the entry stored under the key of call c, or None
StoredFor(c) == IF c.key \in DOMAIN cache THEN cache[c.key] ELSE None

\* the call follows a call with the same key and text, which returned a
\* vector under the model still configured
RepeatsLastCall(c) ==
    /\ c.pc # "idle"
    /\ last.outcome = "returned"
    /\ last.key = c.key
    /\ last.text = c.text
    /\ last.model = model_name

\* C2: when get_or_create is called a second time with the key and text of
\* the call just before it, which returned, and the model is unchanged (and
\* the cache read answers), the second call is a cache hit: it returns the
\* first call's vector and the two calls together call the provider at most
\* once.
C2_SecondCallIsCacheHit ==
    (RepeatsLastCall(TheCall) /\ TheCall.cached # None) =>
        /\ TheCall.pc = "returned"
        /\ TheCall.provider_calls = 0
        /\ TheCall.result = last.result
        /\ last.provider_calls + TheCall.provider_calls <= 1

C2_Witness ==
    /\ RepeatsLastCall(TheCall)
    /\ TheCall.pc = "returned"
    /\ last.provider_calls = 1
    /\ TheCall.provider_calls = 0
    /\ TheCall.result = last.result
    /\ Len(TheCall.result) > 0

\* the document the call read is valid for reuse
ReadValidEntry(c) ==
    /\ c.cached # None
    /\ c.cached.model = model_name
    /\ c.cached.textHash = Sha256Text(c.text)
    /\ c.cached.vector # <<>>

\* C3: a call returns the stored vector with no provider call and no upsert
\* exactly when the document it read has the configured model, the hash of
\* the current text and a non-empty vector; in every other case (nothing
\* read, stale model, stale text, empty vector) a call that returns has made
\* exactly one provider call and one upsert, which stored its document under
\* its key.
C3_HitExactlyOnValidEntry ==
    TheCall.pc # "idle" =>
        /\ ReadValidEntry(TheCall) =>
              /\ TheCall.pc = "returned"
              /\ TheCall.result = TheCall.cached.vector
              /\ TheCall.provider_calls = 0
              /\ TheCall.upserts = 0
        /\ (~ReadValidEntry(TheCall) /\ TheCall.pc = "returned") =>
              /\ TheCall.provider_calls = 1
              /\ TheCall.upserts = 1
              /\ StoredFor(TheCall) = TheCall.doc
              /\ TheCall.result = ProviderEmbed(model_name, TheCall.text)
        /\ (~ReadValidEntry(TheCall) /\ TheCall.pc # "returned") =>
              /\ TheCall.provider_calls <= 1
              /\ TheCall.upserts <= 1

\* a same-text entry with a non-empty vector of another model is regenerated
C3_Witness ==
    /\ TheCall.pc = "returned"
    /\ TheCall.cached # None
    /\ TheCall.cached.model # model_name
    /\ TheCall.cached.textHash = TheCall.text_hash
    /\ TheCall.cached.vector # <<>>
    /\ TheCall.provider_calls = 1
    /\ TheCall.upserts = 1

\* the call read a document whose textHash is not the hash of its text
ReadStaleText(c) ==
    /\ c.cached # None
    /\ c.cached.textHash # Sha256Text(c.text)

\* C4: a call that finds, under its key, a document with another textHash and
\* returns has called the provider, and the entry under the key now holds the
\* new vector, hash and model, updatedAt is the current time and createdAt is
\* the createdAt of the document it found.
C4_StaleTextOverwritten ==
    (TheCall.pc = "returned" /\ ReadStaleText(TheCall)) =>
        /\ TheCall.provider_calls = 1
        /\ StoredFor(TheCall) # None
        /\ StoredFor(TheCall).vector = ProviderEmbed(model_name, TheCall.text)
        /\ StoredFor(TheCall).textHash = Sha256Text(TheCall.text)
        /\ StoredFor(TheCall).model = model_name
        /\ StoredFor(TheCall).updatedAt = now
        /\ StoredFor(TheCall).createdAt = TheCall.cached.createdAt

\* an entry created earlier is overwritten at a later instant
C4_Witness ==
    /\ TheCall.pc = "returned"
    /\ ReadStaleText(TheCall)
    /\ TheCall.cached.vector # <<>>
    /\ TheCall.cached.vector # StoredFor(TheCall).vector
    /\ StoredFor(TheCall).createdAt < StoredFor(TheCall).updatedAt
    /\ TheCall.cached.createdAt > 0

\* the texts whose hash an entry records
TextsOfHash(h) == {text \in CacheTexts : Sha256Text(text) = h}

\* C6: under every interleaving of concurrent calls on one key, the entry is
\* always the document of one single call (its vector is the provider's
\* vector, under the entry's model, of a text with the entry's hash), or the
\* document that was there at the start; so an entry that passes the hit test
\* holds the provider's vector for the text, and calls that returned for the
\* same text hold the same vector.
C6_EntryWrittenByOneCall ==
    /\ \A key \in DOMAIN cache :
          \/ cache[key] = LegacyDoc(key)
          \/ \E text \in TextsOfHash(cache[key].textHash) :
                /\ cache[key].vector = ProviderEmbed(cache[key].model, text)
                /\ cache[key].dim = Len(cache[key].vector)
                /\ cache[key].createdAt <= cache[key].updatedAt
    /\ \A key \in DOMAIN cache, text \in CacheTexts :
          CacheHit(cache[key], model_name, Sha256Text(text)) =>
              cache[key].vector = ProviderEmbed(model_name, text)
    /\ \A p, q \in Callers :
          (/\ calls[p].pc = "returned" /\ calls[q].pc = "returned"
           /\ calls[p].key = calls[q].key /\ calls[p].text = calls[q].text) =>
              calls[p].result = calls[q].result

\* two calls raced on a miss for the same text, one wrote after the other,
\* and both returned the same vector
C6_Witness ==
    \E p, q \in Callers :
        /\ p # q
        /\ calls[p].pc = "returned" /\ calls[q].pc = "returned"
        /\ calls[p].text = calls[q].text
        /\ calls[p].upserts = 1 /\ calls[q].upserts = 1
        /\ calls[p].cached = calls[q].cached
        /\ calls[p].doc.updatedAt < calls[q].doc.updatedAt
        /\ calls[p].result = calls[q].result

\* C7 as claimed: when the provider has returned a vector and the upsert
\* fails, the call still returns the computed vector.
C7_WriteFailureSwallowed ==
    TheCall.fault = "upsert" =>
        /\ TheCall.pc = "returned"
        /\ TheCall.result = TheCall.doc.vector

\* the contents that hold one JSON object, alone or inside markdown fencing
ObjectContents ==
    {PlainContent, SpacedContent, FencedJsonContent, FencedContent}

\* the provider call failed or timed out, or the response cannot be parsed as
\* an object, or the object lacks one of the five mandatory fields
JudgmentFailed(reply) ==
    \/ reply.status # "ok"
    \/ reply.content \notin ObjectContents
    \/ \E i \in 1..Len(RequiredFields) :
            RequiredFields[i] \notin DOMAIN reply.members

\* C8: analyze_match never raises, and whenever the provider call fails or
\* times out, or the response cannot be parsed or lacks a mandatory field, the
\* verdict returned is the fallback: adjusted_score = embedding_score,
\* can_help = (embedding_score > 0.4), confidence = 0.5.
C8_AnalyzeMatchNeverRaises ==
    a_pc # "idle" =>
        /\ a_pc = "returned"
        /\ JudgmentFailed(a_reply) =>
                /\ a_verdict.adjusted_score = a_score
                /\ a_verdict.can_help = (a_score > 40)
                /\ a_verdict.confidence = 50
                /\ a_verdict.llm_model = "fallback"

C8_Witness ==
    /\ a_pc = "returned"
    /\ a_reply.status = "ok"
    /\ a_reply.content = NumberText
    /\ a_score = 41
    /\ a_verdict.can_help
    /\ a_verdict.llm_model = "fallback"

\* C10 as claimed: every verdict returned, parsed or fallback, has
\* adjusted_score in [0,1] and confidence in [0,1].
C10_VerdictScoresInUnitRange ==
    a_pc = "returned" =>
        /\ a_verdict.adjusted_score \in 0..100
        /\ a_verdict.confidence \in 0..100

\* C10 amended: every verdict returned has confidence in [0,1]; a parsed
\* verdict has adjusted_score in [0,1]; a fallback verdict has confidence 0.5
\* and adjusted_score = embedding_score unclamped, which is in [0,1] exactly
\* when embedding_score >= 0.
C10_ParsedClampedFallbackEchoes ==
    a_pc = "returned" =>
        /\ a_verdict.confidence \in 0..100
        /\ a_verdict.llm_model # "fallback" =>
                a_verdict.adjusted_score \in 0..100
        /\ a_verdict.llm_model = "fallback" =>
                /\ a_verdict.confidence = 50
                /\ a_verdict.adjusted_score = a_score
                /\ (a_verdict.adjusted_score \in 0..100) = (a_score >= 0)

C10_Witness ==
    /\ a_pc = "returned"
    /\ a_verdict.llm_model = LlmModel
    /\ a_reply.members["adjusted_score"] = JNum(150)
    /\ a_reply.members["confidence"] = JNum(-20)
    /\ a_verdict.adjusted_score = 100
    /\ a_verdict.confidence = 0
    /\ a_score = -50

\* C5: when the provider call of a get_or_create fails, the call raises, no
\* vector is returned and no upsert is made; the step that fails and every
\* step until the request ends leave the cache as it was; and
\* find_matches_for_user raises too, returning no results.
C5_ProviderFailurePropagates ==
    /\ [](calls[1].fault = "provider" =>
            /\ calls[1].pc = "raised"
            /\ calls[1].result = <<>>
            /\ calls[1].upserts = 0
            /\ m_pc \in {"embedding", "raised"}
            /\ m_result = <<>>)
    /\ [][calls'[1].fault = "provider" => cache' = cache]_vars
    /\ [][calls[1].fault = "provider" =>
            /\ cache' = cache
            /\ m_pc' \in {"raised", "idle"}]_vars

C5_Witness ==
    /\ m_pc = "raised"
    /\ calls[1].fault = "provider"
    /\ m_i >= 2
    /\ calls[1].cached # None
    /\ calls[1].key \in DOMAIN cache
    /\ cache[calls[1].key] = calls[1].cached
    /\ \E k \in DOMAIN cache : k # calls[1].key /\ cache[k].vector # <<>>

\* the matches the re-ranking loop appended for candidate c
MatchesFor(c) ==
    SelectSeq(m_matches,
              LAMBDA x : /\ x.matched_user_id = c.matched_user_id
                         /\ x.skill_offered = c.skill_offered
                         /\ x.skill_needed = c.skill_needed)

\* C9: a request raises only when an embedding call raised, never in the
\* re-ranking loop; every candidate whose judgment call threw has exactly one
\* embedding-only match (match_score = embedding_score, confidence 0.5) in
\* the loop's list; every other candidate has there what its own verdict
\* alone gives (one match with the verdict's score when can_help, else none);
\* and the call returns the first top_k of that list.
C9_JudgmentFailureIsIsolated ==
    /\ m_pc = "raised" => calls[1].pc = "raised"
    /\ \A i \in 1..Len(m_judged) :
        LET c == m_candidates[i]
            made == MatchesFor(c)
            v == AnalyzeMatch(c.embedding_score, m_judged[i].reply).verdict
        IN  IF m_judged[i].throws
            THEN /\ Len(made) = 1
                 /\ made[1].match_score = c.embedding_score
                 /\ made[1].confidence = 50
            ELSE IF v.can_help
            THEN /\ Len(made) = 1
                 /\ made[1].match_score = v.adjusted_score
                 /\ made[1].confidence = v.confidence
            ELSE made = <<>>
    /\ (m_pc = "returned" /\ m_args.use_llm /\ m_candidates # <<>>) =>
        /\ Len(m_judged) = Len(m_candidates)
        /\ Len(m_result) = Min(m_args.top_k, Len(m_matches))
        /\ \A k \in 1..Len(m_result) :
                \E n \in 1..Len(m_matches) :
                    /\ m_matches[n].matched_user_id = m_result[k].matched_user_id
                    /\ m_matches[n].skill_offered = m_result[k].skill_offered
                    /\ m_matches[n].match_score = m_result[k].match_score

C9_Witness ==
    /\ m_pc = "returned"
    /\ m_args.use_llm
    /\ Len(m_judged) = 3
    /\ m_judged[1].throws
    /\ ~m_judged[2].throws
    /\ m_judged[3].throws
    /\ Len(m_matches) = 3
    /\ Len(m_result) = 2
    /\ m_result[2].confidence = 50

\* the candidate a match was made from: same helper, offered and needed skill
FromCandidate(x, c) ==
    /\ x.matched_user_id = c.matched_user_id
    /\ x.skill_offered = c.skill_offered
    /\ x.skill_needed = c.skill_needed

\* the judgment call for candidate i returned a verdict with can_help false
JudgedUnhelpful(i) ==
    /\ ~m_judged[i].throws
    /\ ~AnalyzeMatch(m_candidates[i].embedding_score,
                     m_judged[i].reply).verdict.can_help

\* C11: with use_llm = true, no match returned by find_matches_for_user comes
\* from a candidate whose verdict (the provider's or the adapter's fallback)
\* had can_help = false, whatever its score.
C11_UnhelpfulCandidatesDropped ==
    (m_pc = "returned" /\ m_args.use_llm) =>
        \A i \in 1..Len(m_judged) :
            JudgedUnhelpful(i) =>
                \A k \in 1..Len(m_result) :
                    ~FromCandidate(m_result[k], m_candidates[i])

C11_Witness ==
    /\ m_pc = "returned"
    /\ m_args.use_llm
    /\ m_args.top_k = 2
    /\ Len(m_judged) = 3
    /\ JudgedUnhelpful(1)
    /\ m_candidates[1].embedding_score = 100
    /\ AnalyzeMatch(100, m_judged[1].reply).verdict.adjusted_score = 100
    /\ Len(m_result) = 2

\* C12: with use_llm = false the judgment provider is never invoked, and
\* every match returned has confidence 0.7 and the embedding score of the
\* candidate it was made from as its match_score.
C12_EmbeddingOnlyPath ==
    (m_pc = "returned" /\ ~m_args.use_llm) =>
        /\ m_judged = <<>>
        /\ \A k \in 1..Len(m_result) :
            /\ m_result[k].confidence = 70
            /\ \E i \in 1..Len(m_candidates) :
                /\ FromCandidate(m_result[k], m_candidates[i])
                /\ m_result[k].match_score = m_candidates[i].embedding_score

C12_Witness ==
    /\ m_pc = "returned"
    /\ ~m_args.use_llm
    /\ Len(m_candidates) = 3
    /\ Len(m_result) = 2
    /\ m_result[1].match_score = 100
    /\ m_result[2].match_score = 80

\* the similarity of a need and an offered skill under the current model
PairSimilarity(need, skill) ==
    CosineSimilarity(ProviderEmbed(model_name, SkillText(need)),
                     ProviderEmbed(model_name, SkillText(skill)))

\* every (need of the seeker, active helper other than the seeker, offered
\* skill of the helper) with a similarity of at least the threshold, in the
\* order need, helper, skill
KeptPairs ==
    LET helpers == SelectSeq(users,
                             LAMBDA u : u.is_active /\ u.id # m_user.id)
        OfSkill(need, helper, skill) ==
            LET similarity == PairSimilarity(need, skill)
            IN  IF similarity >= MIN_EMBEDDING_SIMILARITY
                THEN << [matched_user_id |-> helper.id,
                         skill_offered |-> skill.name,
                         skill_needed |-> need.name,
                         embedding_score |-> similarity] >>
                ELSE <<>>
        OfHelper(need, helper) ==
            FlatMap(LAMBDA skill : OfSkill(need, helper, skill),
                    helper.skills_offered)
        OfNeed(need) ==
            FlatMap(LAMBDA helper : OfHelper(need, helper), helpers)
    IN  FlatMap(OfNeed, m_user.skills_needed)

\* where in the kept pairs the pair of candidate c stands
KeptIndex(kept, c) ==
    CHOOSE n \in 1..Len(kept) :
        /\ FromCandidate(kept[n], c)
        /\ kept[n].embedding_score = c.embedding_score

\* pair n comes before pair k in the descending order with ties in
\* generation order
RanksBefore(kept, n, k) ==
    \/ kept[n].embedding_score > kept[k].embedding_score
    \/ /\ kept[n].embedding_score = kept[k].embedding_score
       /\ n < k

\* phase 1 of the current request has returned a candidate list
Retrieved ==
    /\ m_pc \in {"rerank", "returned"}
    /\ m_requests # <<>>

\* C13: _retrieve_candidates returns the first poolSize = 2 * top_k of the
\* kept pairs in descending order of similarity, ties in generation order:
\* every returned candidate is a kept pair (at or above the threshold, helper
\* active and not the seeker), the list is in that order, and every kept pair
\* left out ranks after every returned one.
C13_RetrievalIsSortedPrefix ==
    Retrieved =>
        LET kept == KeptPairs
            returned == 1..Len(m_candidates)
        IN  /\ Len(m_candidates) = Min(m_args.top_k * 2, Len(kept))
            /\ \A k \in returned :
                /\ \E n \in 1..Len(kept) :
                    /\ FromCandidate(kept[n], m_candidates[k])
                    /\ kept[n].embedding_score
                            = m_candidates[k].embedding_score
                /\ m_candidates[k].embedding_score >= MIN_EMBEDDING_SIMILARITY
                /\ m_candidates[k].matched_user_id # m_user.id
            /\ LET at == [k \in returned |-> KeptIndex(kept, m_candidates[k])]
               IN  /\ \A k, l \in returned :
                        k < l => RanksBefore(kept, at[k], at[l])
                   /\ \A n \in 1..Len(kept) :
                        (\A k \in returned : at[k] # n)
                            => \A k \in returned : RanksBefore(kept, at[k], n)

C13_Witness ==
    /\ Retrieved
    /\ m_args.top_k = 1
    /\ Len(KeptPairs) = 4
    /\ KeptPairs[1].embedding_score = 80
    /\ KeptPairs[4].embedding_score = 100
    /\ Len(m_candidates) = 2
    /\ m_candidates[1].matched_user_id = "b"
    /\ m_candidates[2].matched_user_id = "c"
    /\ m_candidates[2].skill_offered = React

\* the results that survive phase 2: the loop's matches with the LLM, every
\* candidate with its embedding score without it
Survivors ==
    IF m_args.use_llm
    THEN [n \in 1..Len(m_matches) |->
            [matched_user_id |-> m_matches[n].matched_user_id,
             skill_offered |-> m_matches[n].skill_offered,
             skill_needed |-> m_matches[n].skill_needed,
             match_score |-> m_matches[n].match_score]]
    ELSE [n \in 1..Len(m_candidates) |->
            [matched_user_id |-> m_candidates[n].matched_user_id,
             skill_offered |-> m_candidates[n].skill_offered,
             skill_needed |-> m_candidates[n].skill_needed,
             match_score |-> m_candidates[n].embedding_score]]

\* C14: the list find_matches_for_user returns has at most top_k elements, is
\* in descending order of match_score, holds min(top_k, survivors) results,
\* each of them a survivor, and no survivor left out scores higher than a
\* returned one; on the LLM path and on the embedding-only path.
C14_ReturnsTopKByScore ==
    m_pc = "returned" =>
        LET survivors == Survivors
        IN  /\ Len(m_result) <= m_args.top_k
            /\ Len(m_result) = Min(m_args.top_k, Len(survivors))
            /\ \A k, l \in 1..Len(m_result) :
                k < l => m_result[k].match_score >= m_result[l].match_score
            /\ \A k \in 1..Len(m_result) :
                \E n \in 1..Len(survivors) :
                    /\ FromCandidate(m_result[k], survivors[n])
                    /\ m_result[k].match_score = survivors[n].match_score
            /\ \A n \in 1..Len(survivors) :
                (\A k \in 1..Len(m_result) :
                        ~FromCandidate(m_result[k], survivors[n]))
                    => \A k \in 1..Len(m_result) :
                        m_result[k].match_score >= survivors[n].match_score

\* the loop's list is not in order and is cut: a later match outranks the
\* first one
C14_Witness ==
    /\ m_pc = "returned"
    /\ m_args.use_llm
    /\ m_args.top_k = 1
    /\ Len(m_matches) = 2
    /\ m_matches[1].match_score = 30
    /\ m_matches[2].match_score = 100
    /\ Len(m_result) = 1
    /\ m_result[1].match_score = 100

\* the synonym test as a relation on lower-cased names: both contain a
\* keyword of one group
ShareKeywordGroup(a, b) ==
    \E g \in 1..Len(MatchSkillKeywords) :
        /\ \E k \in 1..Len(MatchSkillKeywords[g]) :
                Contains(a, MatchSkillKeywords[g][k])
        /\ \E k \in 1..Len(MatchSkillKeywords[g]) :
                Contains(b, MatchSkillKeywords[g][k])

\* compatible names: one lower-cased name contains the other, or both
\* contain a keyword of the same synonym group
ContainmentOrGroup(x, y) ==
    \/ Contains(Lower(x), Lower(y))
    \/ Contains(Lower(y), Lower(x))
    \/ ShareKeywordGroup(Lower(x), Lower(y))

\* the helper of the i-th match is stored and has a needed skill whose name
\* is compatible with the name of a skill the seeker offers
MutualHelp(i, Compatible(_, _)) ==
    \E h \in 1..Len(r_users) :
        /\ r_users[h].id = r_matches[i].matched_user_id
        /\ \E n \in 1..Len(r_users[h].skills_needed),
              s \in 1..Len(r_user.skills_offered) :
                Compatible(r_users[h].skills_needed[n].name,
                           r_user.skills_offered[s].name)

\* the name test gives one answer for (x, y) and (y, x)
NameTestSymmetric ==
    r_pair # <<>> => r_pair[1].can_help_back = r_pair[1].can_help_back_swapped

\* the seeker offers Python and the helper of the first match needs Python
OffersWhatHelperNeeds ==
    /\ r_pc = "scanned"
    /\ \E s \in 1..Len(r_user.skills_offered) :
            r_user.skills_offered[s].name = Python
    /\ \E n \in 1..Len(r_users[2].skills_needed) :
            r_users[2].skills_needed[n].name = Python

\* C15: after _check_reciprocity a match is flagged exactly when
\* its helper needs and the seeker offers skills whose names are compatible
\* by containment or by a shared synonym group; the name test is symmetric;
\* a seeker offering Python matched with a helper needing Python is flagged.
C15_FlaggedIffContainmentOrGroup ==
    /\ r_pc = "scanned" =>
        \A i \in 1..Len(r_result) :
            r_result[i].is_reciprocal = MutualHelp(i, ContainmentOrGroup)
    /\ NameTestSymmetric
    /\ OffersWhatHelperNeeds => r_result[1].is_reciprocal

\* a match without what the scan may write
WithoutReciprocity(match) ==
    [match EXCEPT !.is_reciprocal = FALSE,
                  !.metadata.keys = @ \ {"reverse_match"},
                  !.metadata.reverse_match =
                        [helper_needs |-> <<>>, user_offers |-> <<>>]]

\* C16: _check_reciprocity returns as many matches as it was given, in the
\* same order, and each differs from the one handed in at most in
\* is_reciprocal and metadata.reverse_match.
C16_ScanWritesOnlyTheFlag ==
    r_pc = "scanned" =>
        /\ Len(r_result) = Len(r_matches)
        /\ \A i \in 1..Len(r_result) :
            /\ WithoutReciprocity(r_result[i]) = WithoutReciprocity(r_matches[i])
            /\ r_result[i].match_score = r_matches[i].match_score
            /\ r_result[i].confidence = r_matches[i].confidence
            /\ r_result[i].explanation = r_matches[i].explanation
            /\ r_result[i].matched_user_id = r_matches[i].matched_user_id
            /\ r_result[i].skill_offered = r_matches[i].skill_offered
            /\ r_result[i].skill_needed = r_matches[i].skill_needed

\* a scan that flagged one match, wrote its reverse_match, and left another
\* unflagged
C16_Witness ==
    /\ r_pc = "scanned"
    /\ r_result[1].is_reciprocal
    /\ "reverse_match" \in r_result[1].metadata.keys
    /\ r_result[1] # r_matches[1]
    /\ ~r_result[2].is_reciprocal
    /\ r_result[2] = r_matches[2]

\* C17: for every (need name, offered name) the condition of
\* BarterService._can_help and the condition of _check_reciprocity agree.
C17_SameCompatibilityTest ==
    r_pair # <<>> => r_pair[1].can_help = r_pair[1].can_help_back

\* C18: every cycle detect_3way_cycles(A) returns has exactly three
\* participant entries, of three pairwise distinct users, the first being A.
C18_ThreeDistinctParticipants ==
    b_pc = "done" =>
        \A i \in 1..Len(b_cycles) :
            LET participants == b_cycles[i].participants
            IN  /\ Len(participants) = 3
                /\ participants[1].user_id = b_user_id
                /\ participants[1].user_id # participants[2].user_id
                /\ participants[2].user_id # participants[3].user_id
                /\ participants[1].user_id # participants[3].user_id

\* a call of find_matches_for_user is under way for an id no stored user
\* has, or for a stored user without skills_needed
UnknownOrWithoutNeeds ==
    /\ m_pc # "idle"
    /\ \A i \in 1..Len(users) :
        users[i].id = m_args.user_id => users[i].skills_needed = <<>>

\* C19: for an unknown user id or a user without skills_needed,
\* find_matches_for_user returns the empty list: it does not raise, enters
\* no embedding call (so no provider call and no cache write), makes no
\* judgment call, and no step of the call changes the cache.
C19_NoNeedsNoWork ==
    /\ [](UnknownOrWithoutNeeds =>
            /\ m_pc = "returned"
            /\ m_result = <<>>
            /\ m_requests = <<>>
            /\ m_judged = <<>>
            /\ calls[1].pc = "idle"
            /\ calls[1].provider_calls = 0
            /\ calls[1].upserts = 0)
    /\ [][UnknownOrWithoutNeeds' => cache' = cache]_vars
    /\ [][UnknownOrWithoutNeeds => cache' = cache]_vars

\* C has no needs but offers skills, and other users are active: the call
\* has returned []
C19_Witness ==
    /\ m_pc = "returned"
    /\ m_args.user_id = "c"
    /\ m_user # None
    /\ m_user.skills_needed = <<>>
    /\ m_user.skills_offered # <<>>
    /\ m_result = <<>>
    /\ \E k \in DOMAIN cache : TRUE

\* a request with status accepted exists between x and y, in either
\* direction
AcceptedBetween(requests, x, y) ==
    \E i \in 1..Len(requests) :
        /\ requests[i].status = "accepted"
        /\ {requests[i].from_user_id, requests[i].to_user_id} = {x, y}

\* the step stores a message through send_message
SendStores ==
    /\ Len(messages') = Len(messages) + 1
    /\ messages'[Len(messages')].stored_by = "send"

\* the step answers a send_message call
SendAnswered ==
    /\ msg_response' # msg_response
    /\ msg_response'.op = "send"

\* C20: in any sequence of message requests, accepts, rejects and sends,
\* every message send_message stores is stored while an accepted request
\* exists between its sender and its recipient, in either direction, and
\* every stored message stays stored as it is; a send made without such a
\* request is answered 403 and stores nothing.
C20_MessagesOnlyOverAcceptedRequests ==
    /\ [][SendStores =>
            AcceptedBetween(message_requests,
                            messages'[Len(messages')].from_user_id,
                            messages'[Len(messages')].to_user_id)]_vars
    /\ [][SubSeq(messages', 1, Len(messages)) = messages]_vars
    /\ [][SendAnswered =>
            /\ (msg_response'.status_code = 403) =
                    ~AcceptedBetween(message_requests, msg_response'.user_id,
                                     msg_response'.to_user_id)
            /\ msg_response'.status_code = 403 => messages' = messages
            /\ msg_response'.status_code # 403 => SendStores]_vars

\* B sent A a message over the request A had made and B had accepted; B
\* then rejected the request and B's next send to A was answered 403
C20_Witness ==
    /\ Len(messages) = 2
    /\ messages[2].stored_by = "send"
    /\ messages[2].from_user_id = "b"
    /\ messages[2].to_user_id = "a"
    /\ message_requests[1].from_user_id = "a"
    /\ message_requests[1].to_user_id = "b"
    /\ message_requests[1].status = "rejected"
    /\ ~AcceptedBetween(message_requests, "a", "b")
    /\ msg_response # None
    /\ msg_response.op = "send"
    /\ msg_response.user_id = "b"
    /\ msg_response.to_user_id = "a"
    /\ msg_response.status_code = 403

\* C21: batch_cosine_similarity returns min(k, len(corpus)) pairs of
\* distinct corpus indices, in descending order of score, equal scores in
\* ascending order of index; a corpus vector of norm 0 scores 0 against any
\* query, the zero query included.
C21_BatchSortedStableZeroScoresZero ==
    (sim # <<>> /\ sim[1].op = "batch") =>
        LET result == sim[1].result
            corpus_vecs == sim[1].corpus_vecs
        IN  /\ Len(result) = Min(sim[1].top_k, Len(corpus_vecs))
            /\ \A n \in 1..Len(result) :
                /\ result[n][1] \in 0..(Len(corpus_vecs) - 1)
                /\ Dot(corpus_vecs[result[n][1] + 1],
                       corpus_vecs[result[n][1] + 1]) = 0
                        => result[n][2] = 0
            /\ \A n, k \in 1..Len(result) :
                n < k =>
                    /\ result[n][2] >= result[k][2]
                    /\ result[n][1] # result[k][1]
                    /\ result[n][2] = result[k][2]
                        => result[n][1] < result[k][1]

\* a batch whose corpus order is not the score order, with a tie between
\* two vectors and a zero vector, cut to two
C21_Witness ==
    /\ sim # <<>>
    /\ sim[1].op = "batch"
    /\ sim[1].query_vec = <<5, 0>>
    /\ sim[1].corpus_vecs = << <<0, 0>>, <<5, 0>>, <<10, 0>> >>
    /\ sim[1].top_k = 2
    /\ sim[1].result = << <<1, 100>>, <<2, 100>> >>

\* C22: both cosine_similarity functions raise when a vector is empty or
\* the lengths differ, and return 0.0 without error for non-empty vectors of
\* equal length of which one has norm 0.
C22_CosineRaisesOnBadShapes ==
    (sim # <<>> /\ sim[1].op = "cosine") =>
        LET vec_a == sim[1].vec_a
            vec_b == sim[1].vec_b
        IN  /\ (Len(vec_a) = 0 \/ Len(vec_b) = 0 \/ Len(vec_a) # Len(vec_b))
                => (sim[1].utils_raised /\ sim[1].service_raised)
            /\ (/\ Len(vec_a) > 0
                /\ Len(vec_a) = Len(vec_b)
                /\ (Dot(vec_a, vec_a) = 0 \/ Dot(vec_b, vec_b) = 0))
                => /\ ~sim[1].utils_raised
                   /\ ~sim[1].service_raised
                   /\ sim[1].utils_score = 0
                   /\ sim[1].service_score = 0

(***************************************************************************)
(* C23                                                                     *)
(***************************************************************************)
\* "a b" written with other leading, trailing and inner whitespace
WhitespaceVariantsAB ==
    {TextAB, TextABSpaced, <<"a", "\t", "b", " ">>,
     <<"\n", "a", " ", "\t", "b">>}

\* None, "" and the texts of whitespace only
BlankTexts == {NoneText, <<>>, <<" ">>, <<"\t", " ", "\n">>}

\* the call repeats the key of the call before it, which returned under the
\* model still configured, with a text that differs from that call's text in
\* whitespace only
RepeatsLastCallRespaced(c) ==
    /\ c.pc # "idle"
    /\ last.outcome = "returned"
    /\ last.key = c.key
    /\ last.model = model_name
    /\ last.text # c.text
    /\ last.text \in WhitespaceVariantsAB
    /\ c.text \in WhitespaceVariantsAB

\* C23: sha256_text gives one hash to texts that differ only in leading or
\* trailing whitespace or in the length or kind of their inner whitespace
\* runs, and one hash to None, "" and blank texts; so a get_or_create call
\* whose text differs only in whitespace from the text the entry was cached
\* for (same key, same model, the read answers) is a cache hit: it returns
\* the stored vector and calls no provider.
C23_WhitespaceVariantsShareHash ==
    /\ LET hash_ab == Sha256Text(TextAB)
       IN  \A t \in WhitespaceVariantsAB : Sha256Text(t) = hash_ab
    /\ LET hash_empty == Sha256Text(<<>>)
       IN  \A t \in BlankTexts : Sha256Text(t) = hash_empty
    /\ (RepeatsLastCallRespaced(TheCall) /\ TheCall.cached # None) =>
          /\ TheCall.pc = "returned"
          /\ TheCall.provider_calls = 0
          /\ TheCall.upserts = 0
          /\ TheCall.result = last.result

C23_Witness ==
    /\ RepeatsLastCallRespaced(TheCall)
    /\ TheCall.text = TextABSpaced
    /\ last.text = TextAB
    /\ last.provider_calls = 1
    /\ TheCall.pc = "returned"
    /\ TheCall.provider_calls = 0
    /\ TheCall.result = ProviderEmbed(model_name, TextAB)

(***************************************************************************)
(* C24, C25                                                                *)
(***************************************************************************)
\* the stored user with that id
StoredUser(user_id) ==
    users[CHOOSE i \in 1..Len(users) : users[i].id = user_id]

\* some offered skill of the giver passes the compatibility test against
\* some need of the receiver
OffersForSomeNeed(giver, receiver) ==
    \E i \in 1..Len(giver.skills_offered), j \in 1..Len(receiver.skills_needed) :
        BarterSkillCondition(receiver.skills_needed[j].name,
                             giver.skills_offered[i].name)

\* the caller is unknown, or has no needs, or offers nothing
CallerCannotTrade ==
    \/ \A i \in 1..Len(users) : users[i].id # b_user_id
    \/ StoredUser(b_user_id).skills_needed = <<>>
    \/ StoredUser(b_user_id).skills_offered = <<>>

\* C24: every cycle detect_3way_cycles(A) returns is sound: its second
\* participant B is a user other than A who offers a skill compatible with a
\* need of A, its third participant C is a user other than B who offers a
\* skill compatible with a need of B, and A offers a skill compatible with a
\* need of C; and nothing is returned when A is unknown, has no needs or
\* offers nothing.
C24_ReturnedCyclesAreSound ==
    b_pc = "done" =>
        /\ CallerCannotTrade => b_cycles = <<>>
        /\ \A k \in 1..Len(b_cycles) :
              LET a == StoredUser(b_cycles[k].participants[1].user_id)
                  b == StoredUser(b_cycles[k].participants[2].user_id)
                  c == StoredUser(b_cycles[k].participants[3].user_id)
              IN  /\ a.id = b_user_id
                  /\ b.id # a.id
                  /\ OffersForSomeNeed(b, a)
                  /\ c.id # b.id
                  /\ OffersForSomeNeed(c, b)
                  /\ OffersForSomeNeed(a, c)

\* a cycle over three users was returned
C24_Witness ==
    /\ b_pc = "done"
    /\ Len(b_cycles) > 0
    /\ ParticipantIds(b_cycles[1]) = {"a", "b", "c"}
    /\ OffersForSomeNeed(StoredUser("a"), StoredUser("c"))

\* the exchange goes from giver to receiver and names an offered skill of the
\* giver that passes the compatibility test against a need of the receiver
ExchangeNamesCompatibleSkill(exchange, giver, receiver) ==
    /\ exchange.from_user_id = giver.id
    /\ exchange.to_user_id = receiver.id
    /\ \E i \in 1..Len(giver.skills_offered) :
          /\ giver.skills_offered[i].name = exchange.skill
          /\ \E j \in 1..Len(receiver.skills_needed) :
                BarterSkillCondition(receiver.skills_needed[j].name,
                                     exchange.skill)

\* C25: in every returned cycle the three exchanges are (A to C), (B to A)
\* and (C to B), and the skill each exchange names is an offered skill of the
\* giver that itself passes the compatibility test against the receiver's
\* need (the cycle does not record which need a leg was found for, so the
\* skill is required to pass for some need of the receiver), also when the
\* giver offers several skills of which only a later one is compatible.
C25_ExchangesNameTheCompatibleSkill ==
    b_pc = "done" =>
        \A k \in 1..Len(b_cycles) :
            LET a == StoredUser(b_cycles[k].participants[1].user_id)
                b == StoredUser(b_cycles[k].participants[2].user_id)
                c == StoredUser(b_cycles[k].participants[3].user_id)
                exchanges == b_cycles[k].exchanges
            IN  /\ Len(exchanges) = 3
                /\ ExchangeNamesCompatibleSkill(exchanges[1], a, c)
                /\ ExchangeNamesCompatibleSkill(exchanges[2], b, a)
                /\ ExchangeNamesCompatibleSkill(exchanges[3], c, b)

(***************************************************************************)
(* C26                                                                     *)
(***************************************************************************)
\* every entry that exists keeps its createdAt over the step
CreatedAtKept ==
    \A key \in DOMAIN cache :
        /\ key \in DOMAIN cache'
        /\ cache'[key].createdAt = cache[key].createdAt

\* C26: across every interleaving of concurrent get_or_create calls on one
\* key, once a cache entry exists its createdAt never changes again: a call
\* that read before the entry existed and writes after another call created
\* it does not replace the stored createdAt.
C26_CreatedAtNeverChanges == [][CreatedAtKept]_vars

(***************************************************************************)
(* Claims about compute_matches and the matches collection.                *)
(***************************************************************************)
\* C27: every match record compute_matches stores and returns carries the
\* is_reciprocal value the reciprocity scan computed for that match: both
\* the stored document and the entry of the response.
C27_StoredCarriesScanFlag ==
    \A r \in ComputeRequests :
        LET c == cm_calls[r]
        IN  \A j \in 1..Len(c.stored) :
                /\ c.stored[j].is_reciprocal = c.matches[j].is_reciprocal
                /\ db_matches[c.stored[j].id].is_reciprocal
                      = c.matches[j].is_reciprocal

\* a step of a compute_matches request leaves every accepted or expired
\* match as it is
ComputeKeepsAnswered ==
    cm_calls' # cm_calls =>
        \A k \in 1..Len(db_matches) :
            db_matches[k].status \in {ACCEPTED, EXPIRED} =>
                db_matches'[k].status = db_matches[k].status

\* C28: once a stored match from S to H is accepted (or expired), a later
\* compute_matches by S that finds H again leaves its status as it is:
\* recomputing never moves a match back to pending.
C28_RecomputeKeepsAccepted == [][ComputeKeepsAnswered]_vars

\* C29: after any sequence and interleaving of compute_matches calls,
\* db.matches holds at most one document whose status is not rejected for
\* each ordered pair (seeker, helper).
C29_OneOpenMatchPerPair ==
    \A k, l \in 1..Len(db_matches) :
        (/\ k # l
         /\ db_matches[k].user_id = db_matches[l].user_id
         /\ db_matches[k].matched_user_id = db_matches[l].matched_user_id
         /\ db_matches[k].status # REJECTED)
            => db_matches[l].status = REJECTED

(***************************************************************************)
(* C30                                                                     *)
(***************************************************************************)
\* a request whose status changes over the step was pending before it
StatusChangesOnlyFromPending ==
    \A k \in 1..Len(message_requests) :
        message_requests'[k].status # message_requests[k].status =>
            message_requests[k].status = PENDING

\* the initial messages accepting has put into the conversation from one
\* user to another
InitialMessages(from_user_id, to_user_id) ==
    {k \in 1..Len(messages) :
        /\ messages[k].stored_by = "accept"
        /\ messages[k].from_user_id = from_user_id
        /\ messages[k].to_user_id = to_user_id}

\* the accepted requests from one user to another
AcceptedRequests(from_user_id, to_user_id) ==
    {k \in 1..Len(message_requests) :
        /\ message_requests[k].status = ACCEPTED
        /\ message_requests[k].from_user_id = from_user_id
        /\ message_requests[k].to_user_id = to_user_id}

\* one copy of the initial message per accepted request, none for the others
OneCopyPerAcceptedRequest ==
    \A from_user_id, to_user_id \in MsgUsers :
        Cardinality(InitialMessages(from_user_id, to_user_id))
            = Cardinality(AcceptedRequests(from_user_id, to_user_id))

====
